---- MODULE Spec2Model ----
(***************************************************************************)
(* A model of the agent memory server: the working-memory store with its   *)
(* put triggers (overflow summarization, promotion to long-term memory)    *)
(* and its listing of sessions, the background task runner, the REST       *)
(* client helpers that read and then write a session, index_messages and   *)
(* search_messages, which store and search a session's messages by vector, *)
(* the search with recency re-ranking, the timestamps the models are built *)
(* with, the extraction of discrete memories by LLM, the tagging of a text *)
(* with topics and entities, the prompt hydrator, the paging of the        *)
(* extractor over the unprocessed messages, the registry of models, the    *)
(* lazily loaded topic and entity models, and the namespace the client     *)
(* helpers read and write.                                                  *)
(***************************************************************************)
EXTENDS Integers, Sequences, FiniteSets, TLC

VARIABLES
    long_term_memory,   \* settings.long_term_memory
    sessions,           \* the working-memory store: session key -> entry
    version,            \* per session key, the writes the store has served
    queue,              \* the task runner's queue
    running,            \* the task each worker is executing
    written,            \* per key, the WorkingMemory of the put nothing has overwritten since
    promoted,           \* per key, the ids of the items scheduled for indexing so far
    last,               \* the latest step: the request served or the task run
    procs,              \* the client helper calls in flight
    redis_conn,         \* the memory hashes index_messages has stored
    indexed,            \* what the latest index_messages call was given and found
    session_list,       \* per namespace, the sorted set of its session ids
    absent,             \* per key, no put has been served since the last delete
    adapter,            \* the records the vector store adapter holds
    extraction,         \* what the latest extraction call did
    clock,              \* the time datetime.now(UTC) reads
    made,               \* the model object constructed last
    results,            \* what the latest search returned
    tagging,            \* what the latest topic or entity extraction call did
    prompt,             \* what the latest prompt hydration returned
    scan,               \* the paging loop of extract_discrete_memories
    served,             \* what the latest lookup in the model registry returned
    loaded,             \* the module globals of the topic and entity models
    resolved            \* per client, the namespaces its helper call has sent

vars == <<long_term_memory, sessions, version, queue, running, written, promoted,
          last, procs, redis_conn, indexed, session_list, absent, adapter,
          extraction, clock, made, results, tagging, prompt, scan, served,
          loaded, resolved>>

\* The long-term engine's side of the state, which the working-memory store
\* and its clients leave alone.
engine_vars == <<adapter, extraction, clock, made, tagging, prompt>>

\* The state of the paging loop, of the model registry, of the loaded models
\* and of the namespaces sent, which every other part leaves alone.
process_vars == <<scan, served, loaded, resolved>>

\* The state the extractor, the models and the search leave alone.
store_vars ==
    <<long_term_memory, sessions, version, queue, running, written, promoted,
      last, procs, session_list, absent>>

----------------------------------------------------------------------------
(* Bounds of the model *)

\* Writes (put, delete) the store serves on request.
MaxWrites == 2
\* Capacity of the task runner's queue.
MaxQueue == 2
\* Tasks executing at once (max_workers).
MaxWorkers == 1

\* settings.window_size, as the tests set it.
WindowSize == 1

----------------------------------------------------------------------------
(* Values *)

None == "None"
Unset == "None"
Stamped == "now"

GenerationModel == "gpt-4o-mini"

Namespaces == {None, "test-namespace"}
SessionIds == {"test-session", "session1"}
Keys == Namespaces \X SessionIds

\* The keys of the session the store's requests and tasks are exercised on.
SessionKeys == Namespaces \X {"test-session"}

\* The messages of the test session.
AllMessages ==
    << [id |-> "m1", role |-> "user", content |-> "Hello"],
       [id |-> "m2", role |-> "assistant", content |-> "Hi there"] >>

MessagePool == { AllMessages[i] : i \in DOMAIN AllMessages }

\* MemoryMessage: role, content, id, persisted_at.
MemoryMessage(m, p) ==
    [id |-> m.id, role |-> m.role, content |-> m.content, persisted_at |-> p]

Range(s) == { s[i] : i \in DOMAIN s }

SeqsUpTo(S, n) == UNION { [1..k -> S] : k \in 0..n }

DistinctIds(s) == \A i, j \in DOMAIN s : i # j => s[i].id # s[j].id

MessageLists ==
    { s \in SeqsUpTo({ MemoryMessage(m, p) : m \in MessagePool, p \in {Unset, Stamped} },
                     Len(AllMessages)) : DistinctIds(s) }

\* MemoryRecord as working memory holds it: id, text, persisted_at.
MemoryRecord(id, text, p) == [id |-> id, text |-> text, persisted_at |-> p]

MemoryLists ==
    { <<>>,
      << MemoryRecord("pref", "User likes tea", Unset),
         MemoryRecord("pref", "User likes coffee", Unset) >>,
      << MemoryRecord("pref", "User likes tea", Stamped),
         MemoryRecord("fact", "User lives in Paris", Unset) >> }

Contexts == {None, "Sample context"}
Datas == {None, "theme=dark"}

EmptyWorkingMemory ==
    [messages |-> <<>>, memories |-> <<>>, data |-> None, context |-> None,
     user_id |-> None]

NoSession == [exists |-> FALSE, wm |-> EmptyWorkingMemory]

NotWritten == [valid |-> FALSE, wm |-> EmptyWorkingMemory]

----------------------------------------------------------------------------
(* The task runner: a bounded queue, at most one summarize task per key *)

NoRecords == <<>>

SummarizeTask(k) ==
    [type |-> "summarize", key |-> k, model |-> GenerationModel,
     window_size |-> WindowSize, records |-> NoRecords]

IndexTask(k, records) ==
    [type |-> "index", key |-> k, model |-> None, window_size |-> 0,
     records |-> records]

\* Pending, were it to look at the queue alone and not at the running tasks.
PendingQueuedOnly(q, r, task) ==
    \E t \in Range(q) : t.type = "summarize" /\ t.key = task.key

\* A summarize task of the same key is queued or running.
Pending(q, r, task) ==
    \E t \in Range(q) \cup Range(r) : t.type = "summarize" /\ t.key = task.key

\* enqueue: a summarize task whose key is queued or running is dropped.
Enqueue(q, r, task) ==
    IF task.type = "summarize" /\ Pending(q, r, task) THEN q ELSE Append(q, task)

RECURSIVE EnqueueAll(_, _, _)
EnqueueAll(q, r, tasks) ==
    IF tasks = <<>> THEN q
    ELSE EnqueueAll(Enqueue(q, r, Head(tasks)), r, Tail(tasks))

----------------------------------------------------------------------------
(* The working-memory store: put and its three triggers *)

\* The elements of s at the indices in keep, from index i on, order kept.
RECURSIVE SelectIdx(_, _, _)
SelectIdx(s, keep, i) ==
    IF i > Len(s) THEN <<>>
    ELSE (IF i \in keep THEN <<s[i]>> ELSE <<>>) \o SelectIdx(s, keep, i + 1)

\* DedupById, were the first record supplied for an id the one kept.
DedupByIdFirstWins(memories) ==
    LET keep == { i \in DOMAIN memories :
                     \A j \in DOMAIN memories : j < i => memories[j].id # memories[i].id }
    IN  SelectIdx(memories, keep, 1)

\* Trigger 1: one record per id in memories[], the last one supplied wins.
DedupById(memories) ==
    LET keep == { i \in DOMAIN memories :
                     \A j \in DOMAIN memories : j > i => memories[j].id # memories[i].id }
    IN  SelectIdx(memories, keep, 1)

\* Overflow, were it to fire at the window size already.
OverflowAtWindow(wm) == Len(wm.messages) >= WindowSize

\* Trigger 2: the message window is exceeded.
Overflow(wm) == Len(wm.messages) > WindowSize

\* MessageRecord, were its text the content alone.
MessageRecordContentOnly(k, m) ==
    [id |-> m.id, text |-> m.content, session_id |-> k[2],
     namespace |-> k[1], memory_type |-> "message"]

\* The long-term record a message is promoted as.
MessageRecord(k, m) ==
    [id |-> m.id, text |-> m.role \o ": " \o m.content, session_id |-> k[2],
     namespace |-> k[1], memory_type |-> "message"]

PendingRecord(k, r) ==
    [id |-> r.id, text |-> r.text, session_id |-> k[2], namespace |-> k[1],
     memory_type |-> "semantic"]

\* PromotionRecords, were it to take every item, persisted or not.
PromotionRecordsAll(k, wm) ==
    [i \in 1..Len(wm.memories) |-> PendingRecord(k, wm.memories[i])]
    \o [i \in 1..Len(wm.messages) |-> MessageRecord(k, wm.messages[i])]

\* Trigger 3: the items of wm whose persisted_at is unset, as long-term records.
PromotionRecords(k, wm) ==
    LET keepMem == { i \in DOMAIN wm.memories : wm.memories[i].persisted_at = Unset }
        keepMsg == { i \in DOMAIN wm.messages : wm.messages[i].persisted_at = Unset }
        mems == SelectIdx(wm.memories, keepMem, 1)
        msgs == SelectIdx(wm.messages, keepMsg, 1)
    IN  [i \in 1..Len(mems) |-> PendingRecord(k, mems[i])]
        \o [i \in 1..Len(msgs) |-> MessageRecord(k, msgs[i])]

\* Stamp, were it to leave persisted_at as it is.
StampNothing(items) == items

\* persisted_at is stamped on the items handed to the long-term engine.
Stamp(items) ==
    [i \in 1..Len(items) |-> [items[i] EXCEPT !.persisted_at = Stamped]]

\* The tasks a put of wm hands to the task runner, in order.
PutTasks(k, wm, ltm) ==
    (IF Overflow(wm) THEN <<SummarizeTask(k)>> ELSE <<>>)
    \o (IF ltm /\ PromotionRecords(k, wm) # <<>>
        THEN <<IndexTask(k, PromotionRecords(k, wm))>> ELSE <<>>)

Reverse(s) == [i \in 1..Len(s) |-> s[Len(s) + 1 - i]]

\* PutStored, were the messages pushed at the head of the stored list.
PutStoredLpush(wm, ltm) ==
    LET deduped == [wm EXCEPT !.memories = DedupById(wm.memories)]
        pushed == [deduped EXCEPT !.messages = Reverse(deduped.messages)]
    IN  IF ltm
        THEN [pushed EXCEPT !.messages = Stamp(pushed.messages),
                            !.memories = Stamp(pushed.memories)]
        ELSE pushed

\* The WorkingMemory a put stores and returns.
PutStored(wm, ltm) ==
    LET deduped == [wm EXCEPT !.memories = DedupById(wm.memories)]
    IN  IF ltm
        THEN [deduped EXCEPT !.messages = Stamp(deduped.messages),
                             !.memories = Stamp(deduped.memories)]
        ELSE deduped

\* What a step leaves in `last`: the operation, its key, its answer, the tasks it
\* handed to the runner and how many of them the runner dropped.
Step(op, k, result, calls, dropped) ==
    [op |-> op, key |-> k, result |-> result, calls |-> calls, dropped |-> dropped,
     again |-> FALSE,
     before |-> IF op \in {"putget", "summarize"} THEN sessions[k] ELSE NoSession]

\* The ids of the items a list of tasks carries to the long-term engine.
RecordIds(calls) ==
    UNION { { t.records[i].id : i \in DOMAIN t.records } : t \in Range(calls) }

\* Keys.sessions_key, were it to ignore the namespace.
sessions_key_default(namespace) == None

\* Keys.sessions_key(namespace): the sorted set of the namespace's sessions.
sessions_key(namespace) == namespace

\* The sequence s without the element x.
Without(s, x) == SelectIdx(s, { i \in DOMAIN s : s[i] # x }, 1)

\* ZADD of a session id with the current time as its score: the id becomes
\* the last of the set.
zadd(list, k) ==
    [list EXCEPT ![sessions_key(k[1])] = Append(Without(@, k[2]), k[2])]

\* ZREM of a session id.
zrem(list, k) ==
    [list EXCEPT ![sessions_key(k[1])] = Without(@, k[2])]

\* ZSCORE of a session id: whether the set holds it.
zscore(list, k) ==
    \E i \in DOMAIN list[sessions_key(k[1])] : list[sessions_key(k[1])][i] = k[2]

\* put(namespace, session_id, WorkingMemory): the request carries no version
\* token, and the stored WorkingMemory is replaced.
set_session_memory(op, k, wm) ==
    LET deduped == [wm EXCEPT !.memories = DedupById(wm.memories)]
        calls == PutTasks(k, deduped, long_term_memory)
        q == EnqueueAll(queue, running, calls)
    IN  /\ Len(queue) + Len(calls) <= MaxQueue
        /\ sessions' = [sessions EXCEPT
               ![k] = [exists |-> TRUE, wm |-> PutStored(wm, long_term_memory)]]
        /\ session_list' = zadd(session_list, k)
        /\ absent' = [absent EXCEPT ![k] = FALSE]
        /\ version' = [version EXCEPT ![k] = @ + 1]
        /\ queue' = q
        /\ written' = [written EXCEPT ![k] = [valid |-> TRUE, wm |-> wm]]
        /\ promoted' = [promoted EXCEPT ![k] = @ \cup RecordIds(calls)]
        /\ last' = [Step(op, k, "200", calls, Len(queue) + Len(calls) - Len(q))
                       EXCEPT !.again = RecordIds(calls) \cap promoted[k] # {}]
        /\ UNCHANGED <<long_term_memory, running>>

\* get(namespace, session_id): NotFound when the namespace's sorted set does
\* not hold the session id, the stored WorkingMemory otherwise.
get_session_memory(k) ==
    IF zscore(session_list, k) THEN [status |-> "200", wm |-> sessions[k].wm]
    ELSE [status |-> "404", wm |-> EmptyWorkingMemory]

\* list(namespace, limit, offset): ZCARD and ZRANGE offset .. offset + limit - 1
\* of the namespace's sorted set.
list_sessions(namespace, limit, offset) ==
    LET all == session_list[sessions_key(namespace)]
        to == IF offset + limit < Len(all) THEN offset + limit ELSE Len(all)
    IN  [total |-> Len(all), sessions |-> SubSeq(all, offset + 1, to)]

\* delete_session_memory, were it to leave the sorted set as it is.
delete_session_memory_no_zrem(k) ==
    /\ sessions' = [sessions EXCEPT ![k] = NoSession]
    /\ session_list' = session_list
    /\ absent' = [absent EXCEPT ![k] = TRUE]
    /\ version' = [version EXCEPT ![k] = @ + 1]
    /\ written' = [written EXCEPT ![k] = NotWritten]
    /\ promoted' = [promoted EXCEPT ![k] = {}]
    /\ last' = Step("delete", k, "200", <<>>, 0)
    /\ UNCHANGED <<long_term_memory, queue, running>>

\* delete(namespace, session_id): the session's keys are deleted and its id is
\* removed from the namespace's sorted set.
delete_session_memory(k) ==
    /\ sessions' = [sessions EXCEPT ![k] = NoSession]
    /\ session_list' = zrem(session_list, k)
    /\ absent' = [absent EXCEPT ![k] = TRUE]
    /\ version' = [version EXCEPT ![k] = @ + 1]
    /\ written' = [written EXCEPT ![k] = NotWritten]
    /\ promoted' = [promoted EXCEPT ![k] = {}]
    /\ last' = Step("delete", k, "200", <<>>, 0)
    /\ UNCHANGED <<long_term_memory, queue, running>>

----------------------------------------------------------------------------
(* The summarizer *)

\* Token count without a tokenizer: ceil(chars / 4).
TokenCount(text) == (Len(text) + 3) \div 4

RECURSIVE MessageTokens(_)
MessageTokens(msgs) ==
    IF msgs = <<>> THEN 0
    ELSE TokenCount(Head(msgs).content) + MessageTokens(Tail(msgs))

TotalTokens(wm) ==
    MessageTokens(wm.messages)
    + (IF wm.context = None THEN 0 ELSE TokenCount(wm.context))

\* summarization_threshold = 0.7 x context window.
UnderThreshold(wm, cw) == 10 * TotalTokens(wm) <= 7 * cw

LastN(s, n) == SubSeq(s, Len(s) - n + 1, Len(s))

\* The most recent messages that fit tail_budget = 0.3 x context window.
TailOf(msgs, cw) ==
    LET fits == { n \in 0..Len(msgs) : 10 * MessageTokens(LastN(msgs, n)) <= 3 * cw }
        n == CHOOSE x \in fits : \A y \in fits : y <= x
    IN  LastN(msgs, n)

\* The rolling summary the model returns for the previous context and the prefix.
Summary == "Summary of the conversation so far"

ContextWindows == {4, 7, 40}

\* (tail, new_context) of the summarizer, or wm unchanged.
Summarize(wm, cw, llm_ok) ==
    IF UnderThreshold(wm, cw) \/ ~llm_ok THEN wm
    ELSE [wm EXCEPT !.messages = TailOf(wm.messages, cw), !.context = Summary]

----------------------------------------------------------------------------
(* The workers *)

Workers == 1..MaxWorkers

Idle ==
    [type |-> "idle", key |-> <<None, None>>, model |-> None, window_size |-> 0,
     records |-> NoRecords]

\* A free worker takes the task at the head of the queue.
StartTask(w) ==
    /\ queue # <<>>
    /\ running[w] = Idle
    /\ running' = [running EXCEPT ![w] = Head(queue)]
    /\ queue' = Tail(queue)
    /\ last' = Step("start", Head(queue).key, "", <<>>, 0)
    /\ UNCHANGED <<long_term_memory, sessions, version, written, promoted,
                   session_list, absent>>

\* A worker runs summarize_session(session_id, model, window_size) to its end.
summarize_session(w, cw, llm_ok) ==
    LET k == running[w].key
        new == Summarize(sessions[k].wm, cw, llm_ok)
        rewrite == sessions[k].exists /\ new # sessions[k].wm
    IN  /\ running[w].type = "summarize"
        /\ running' = [running EXCEPT ![w] = Idle]
        /\ sessions' = IF rewrite THEN [sessions EXCEPT ![k].wm = new] ELSE sessions
        /\ version' = IF rewrite THEN [version EXCEPT ![k] = @ + 1] ELSE version
        /\ written' = IF rewrite THEN [written EXCEPT ![k] = NotWritten] ELSE written
        /\ last' = Step("summarize", k,
                        IF ~sessions[k].exists THEN "missing"
                        ELSE IF UnderThreshold(sessions[k].wm, cw) THEN "unchanged"
                        ELSE IF llm_ok THEN "summarized" ELSE "failed",
                        <<>>, 0)
        /\ UNCHANGED <<long_term_memory, queue, promoted, session_list, absent>>

\* A worker runs an index task to its end: the records go to the long-term
\* engine, and working memory is left alone.
index_task(w) ==
    /\ running[w].type = "index"
    /\ running' = [running EXCEPT ![w] = Idle]
    /\ last' = Step("index", running[w].key, "", <<>>, 0)
    /\ UNCHANGED <<long_term_memory, sessions, version, queue, written, promoted,
                   session_list, absent>>

----------------------------------------------------------------------------
(* The store and its workers as a state machine *)

\* The session the requests exercise in full, and the other sessions.
MainKey == <<"test-namespace", "test-session">>

OtherInputs ==
    { [EmptyWorkingMemory EXCEPT
          !.messages = << MemoryMessage(AllMessages[2], Unset),
                          MemoryMessage(AllMessages[1], Unset) >>,
          !.context = "Sample context"] }

\* The WorkingMemory values written to MainKey: every message list with every
\* context, and every memories list with every data value.
MainInputs ==
    [messages : MessageLists, memories : {<<>>}, data : {None},
     context : Contexts, user_id : {None}]
    \cup [messages : {<< MemoryMessage(AllMessages[1], Unset) >>},
          memories : MemoryLists, data : Datas, context : {None}, user_id : {None}]

PutInputs(k) == IF k = MainKey THEN MainInputs ELSE OtherInputs

----------------------------------------------------------------------------
(* The REST client: helpers that read a session and write it back *)

Clients == {"A", "B"}

\* Calls each client makes.
MaxCalls == 1

\* data of a WorkingMemory built for a session that was not read: {}.
EmptyData == "{}"

\* MemoryClientConfig.default_namespace of each client.
DefaultNamespace(c) == IF c = "A" THEN None ELSE "test-namespace"

\* The memories each client adds.
ClientMemories(c) ==
    IF c = "A" THEN << MemoryRecord("pref", "User likes tea", Unset) >>
    ELSE << MemoryRecord("fact", "User lives in Paris", Unset) >>

NoCall ==
    [pc |-> "idle", calls |-> 0, op |-> "none", session_id |-> "test-session",
     namespace |-> None, default_namespace |-> None, flag |-> FALSE,
     memories |-> <<>>, data |-> None, fetched |-> FALSE, found |-> FALSE,
     existing |-> EmptyWorkingMemory, seen |-> 0, stale |-> FALSE, result |-> "",
     before |-> [exists |-> FALSE, wm |-> EmptyWorkingMemory]]

\* A namespace argument Python takes as true.
Truthy(ns) == ns # None /\ ns # ""

\* The session key get_session_memory asks for: `namespace is not None`, else
\* the configured default, else none.
GetKey(p) ==
    << IF p.namespace # None THEN p.namespace ELSE p.default_namespace,
       p.session_id >>

\* The session key the helpers write: `namespace or default_namespace`, which
\* put_session_memory replaces by the default when it is None.
PutKey(p) ==
    LET ns == IF Truthy(p.namespace) THEN p.namespace ELSE p.default_namespace
    IN  << IF ns = None /\ p.default_namespace # None
           THEN p.default_namespace ELSE ns,
           p.session_id >>

\* The first half of add_memories_to_working_memory and set_working_memory_data:
\* the session is fetched, and any failure of the fetch is suppressed.
ClientRead(c, op, ns, flag, memories, data, ok) ==
    LET p == [procs[c] EXCEPT !.op = op, !.namespace = ns,
                              !.default_namespace = DefaultNamespace(c),
                              !.flag = flag, !.memories = memories, !.data = data]
        fetch == op = "add" \/ flag
        got == get_session_memory(GetKey(p))
        found == fetch /\ ok /\ got.status = "200"
    IN  /\ procs[c].pc \in {"idle", "done"}
        /\ procs[c].calls < MaxCalls
        /\ procs' = [procs EXCEPT ![c] =
               [p EXCEPT !.pc = "read", !.calls = @ + 1,
                         !.fetched = fetch /\ ok, !.found = found,
                         !.existing = IF found THEN got.wm ELSE EmptyWorkingMemory,
                         !.seen = version[GetKey(p)], !.stale = FALSE,
                         !.result = "", !.before = sessions[PutKey(p)]]]
        /\ last' = Step("get", GetKey(p), IF fetch THEN got.status ELSE "", <<>>, 0)
        /\ UNCHANGED <<long_term_memory, sessions, version, queue, running, written,
                       promoted, redis_conn, indexed, session_list, absent>>
        /\ UNCHANGED <<process_vars, engine_vars, results>>

\* The WorkingMemory the helper builds from what it fetched.
ClientWorkingMemory(p) ==
    IF p.op = "add"
    THEN [messages |-> p.existing.messages,
          memories |-> IF p.flag \/ ~p.found THEN p.memories
                       ELSE p.existing.memories \o p.memories,
          data |-> IF p.found THEN p.existing.data ELSE EmptyData,
          context |-> p.existing.context,
          user_id |-> p.existing.user_id]
    ELSE [messages |-> p.existing.messages,
          memories |-> p.existing.memories,
          data |-> p.data,
          context |-> p.existing.context,
          user_id |-> p.existing.user_id]

\* The second half: put_session_memory sends the WorkingMemory, with no version
\* of the session it was built from.
ClientWrite(c) ==
    LET p == procs[c]
    IN  /\ p.pc = "read"
        /\ set_session_memory("put", PutKey(p), ClientWorkingMemory(p))
        /\ procs' = [procs EXCEPT ![c] =
               [p EXCEPT !.pc = "done", !.result = "200",
                         !.stale = p.fetched /\ p.seen # version[PutKey(p)]]]
        /\ UNCHANGED <<redis_conn, indexed>>
        /\ UNCHANGED <<process_vars, engine_vars, results>>

----------------------------------------------------------------------------
(* index_messages: the long-term index of the messages of a session *)

\* Memory hashes stored at most.
MaxStored == 3

NoResults ==
    [called |-> FALSE, rerank |-> FALSE, query |-> None, session_id |-> None,
     distance_threshold |-> 0, limit |-> 0, total |-> 0, docs |-> <<>>]

NotIndexed ==
    [called |-> FALSE, result |-> "", matched |-> FALSE, before |-> 0,
     messages |-> <<>>, session_id |-> None, repeat |-> FALSE,
     embedded |-> FALSE]

\* lowercase(trim(text)), over the contents the model indexes.
Normalize(text) ==
    CASE text \in {"Hello", " hello"} -> "hello"
      [] text = "Hi there" -> "hi there"
      [] OTHER -> text

\* memory_hash over (text, user_id, session_id, namespace).
memory_hash(text, user_id, session_id, namespace) ==
    << Normalize(text), user_id, session_id, namespace >>

\* The memory_hash of a stored hash, which has no user_id and no namespace.
StoredHash(r) == memory_hash(r.content, None, r.session, None)

\* The hashes written, were they written before the embeddings are asked for.
WrittenBeforeEmbedding(embedded, stored) == stored

\* The hashes index_messages writes: none when create_embedding raises, which
\* is awaited before the loop of HSETs, and else `stored` of them.
Written(embedded, stored) == IF embedded THEN stored ELSE 0

\* index_messages(messages, session_id, client, redis_conn): one hash per
\* message under a fresh id; `stored` of them are written before an exception,
\* all of them when none is raised.
index_messages(messages, session_id, embedded, stored) ==
    LET n == Written(embedded, stored)
        new == [i \in 1..n |->
                   [id |-> Len(redis_conn) + i, session |-> session_id,
                    content |-> messages[i].content, role |-> messages[i].role]]
    IN  /\ Len(redis_conn) + Len(messages) <= MaxStored
        /\ redis_conn' = redis_conn \o new
        /\ indexed' =
               [called |-> TRUE,
                result |-> IF embedded /\ stored = Len(messages) THEN "ok" ELSE "raised",
                matched |-> /\ messages # <<>>
                            /\ \A i \in DOMAIN messages :
                                  \E j \in DOMAIN redis_conn :
                                      StoredHash(redis_conn[j])
                                      = memory_hash(messages[i].content, None,
                                                    session_id, None),
                before |-> Len(redis_conn),
                messages |-> messages,
                session_id |-> session_id,
                embedded |-> embedded,
                repeat |-> /\ indexed.called /\ indexed.result = "ok"
                           /\ messages # <<>>
                           /\ indexed.messages = messages
                           /\ indexed.session_id = session_id]
        /\ UNCHANGED <<long_term_memory, sessions, version, queue, running, written,
                       promoted, last, procs, session_list, absent>>
        /\ UNCHANGED <<process_vars, engine_vars>>
        /\ results' = NoResults

----------------------------------------------------------------------------
(* search_messages: vector search over the indexed messages of a session *)

\* Results a search asks for at most.
MaxLimit == 2

\* distance_threshold left at its default, Unset.
NoThreshold == -1

Queries == {"hello", "hi"}

\* The distance between the embeddings of a query and of a content, in tenths,
\* from 0 to 20.
Dist(query, content) ==
    IF query = "hello"
    THEN CASE content = "Hello" -> 1
           [] content = " hello" -> 2
           [] content = "Hi there" -> 6
           [] OTHER -> 14
    ELSE IF query = "hi"
    THEN CASE content = "Hi there" -> 2
           [] content = "Hello" -> 5
           [] content = " hello" -> 5
           [] OTHER -> 14
    ELSE 10

\* The tags the filter @session:{...} asks for, the session_id being put
\* between the braces as it is: the alternatives that "|" separates.
TagValues(session_id) ==
    IF session_id = "alice|bob" THEN {"alice", "bob"} ELSE {session_id}

\* The stored documents a query matches: those whose session is one of the
\* tags of the filter, and within the radius when there is one.
Matching(session_id, query, radius) ==
    { i \in DOMAIN redis_conn :
        /\ redis_conn[i].session \in TagValues(session_id)
        /\ radius # NoThreshold => Dist(query, redis_conn[i].content) <= radius }

\* Document j is nearer to the query than document i, the one stored first
\* when they are as near.
Nearer(query, j, i) ==
    LET dj == Dist(query, redis_conn[j].content)
        di == Dist(query, redis_conn[i].content)
    IN  dj < di \/ (dj = di /\ j < i)

\* sort_by, were it descending.
sort_by_desc(query, j, i) ==
    LET dj == Dist(query, redis_conn[j].content)
        di == Dist(query, redis_conn[i].content)
    IN  dj > di \/ (dj = di /\ j < i)

\* .sort_by("dist", asc=True): document j comes before document i.
sort_by(query, j, i) ==
    LET dj == Dist(query, redis_conn[j].content)
        di == Dist(query, redis_conn[i].content)
    IN  dj < di \/ (dj = di /\ j < i)

\* FT.SEARCH of the query built by search_messages: the documents of the
\* session within the radius, or its `limit` nearest ones (KNN) when there is
\* no radius, sorted by dist and paged from 0 to limit.
ft_search(session_id, query, radius, limit) ==
    LET docs == Matching(session_id, query, radius)
        found == IF radius = NoThreshold
                 THEN { i \in docs :
                          Cardinality({ j \in docs : Nearer(query, j, i) }) < limit }
                 ELSE docs
        paged == IF Cardinality(found) < limit THEN Cardinality(found) ELSE limit
    IN  [total |-> Cardinality(found),
         docs |-> [r \in 1..paged |->
                     LET i == CHOOSE x \in found :
                                  Cardinality({ j \in found : sort_by(query, j, x) })
                                  = r - 1
                     IN  [id |-> redis_conn[i].id, role |-> redis_conn[i].role,
                          content |-> redis_conn[i].content,
                          dist |-> Dist(query, redis_conn[i].content)]]]

\* search_messages(query, session_id, client, redis_conn, distance_threshold,
\* limit): a threshold that is unset or zero asks for the nearest neighbours.
search_messages(query, session_id, distance_threshold, limit) ==
    LET radius == IF distance_threshold # 0 /\ distance_threshold # NoThreshold
                  THEN distance_threshold ELSE NoThreshold
    IN  \E raw_results \in { ft_search(session_id, query, radius, limit) } :
            /\ results' =
                   [called |-> TRUE, rerank |-> FALSE, query |-> query,
                    session_id |-> session_id,
                    distance_threshold |-> distance_threshold,
                    limit |-> limit, total |-> raw_results.total,
                    docs |-> [i \in 1..Len(raw_results.docs) |->
                                 [role |-> raw_results.docs[i].role,
                                  content |-> raw_results.docs[i].content,
                                  dist |-> raw_results.docs[i].dist]]]
            /\ UNCHANGED <<process_vars, store_vars, redis_conn, indexed, engine_vars>>

\* Candidates the search fetches beyond limit when it re-ranks.
RecencyOverfetch == 1

\* final = w_s * semantic_score + w_r * recency with w_s = 0.7, w_r = 0.3 and
\* semantic_score = 1 - d / 2, in two-hundredths; recency is from 0 to 20.
Final(dist, recency) == 7 * (20 - dist) + 3 * recency

\* The candidates with their final score. `fresh` is the id of the record
\* accessed and created now; the others are old.
Scored(candidates, fresh) ==
    [i \in 1..Len(candidates) |->
        [role |-> candidates[i].role, content |-> candidates[i].content,
         dist |-> candidates[i].dist,
         final |-> Final(candidates[i].dist,
                         IF candidates[i].id = fresh THEN 20 ELSE 0)]]

\* The re-ranker: descending by final, stable by original position.
Rerank(scored) ==
    [r \in 1..Len(scored) |->
        scored[CHOOSE i \in DOMAIN scored :
                  Cardinality({ j \in DOMAIN scored :
                                  \/ scored[j].final > scored[i].final
                                  \/ scored[j].final = scored[i].final /\ j < i })
                  = r - 1]]

FirstN(s, n) == SubSeq(s, 1, IF n < Len(s) THEN n ELSE Len(s))

\* The search pipeline with recency boosting: limit + overfetch candidates by
\* distance, re-ranked, then cut to limit.
search_long_term_memories(query, session_id, limit, fresh) ==
    \E candidates \in { ft_search(session_id, query, NoThreshold,
                                   limit + RecencyOverfetch).docs } :
        \E scored \in { Scored(candidates, fresh) } :
            /\ results' =
                   [called |-> TRUE, rerank |-> TRUE, query |-> query,
                    session_id |-> session_id, distance_threshold |-> NoThreshold,
                    limit |-> limit, total |-> Len(candidates),
                    docs |-> FirstN(Rerank(scored), limit)]
            /\ UNCHANGED <<process_vars, store_vars, redis_conn, indexed, engine_vars>>

----------------------------------------------------------------------------
(* The models: the timestamps a MemoryRecord or WorkingMemory is built with *)

\* The latest time the clock reaches.
MaxClock == 6

\* The most the clock advances between two readings of one construction.
MaxElapsed == 2

NotMade == [model |-> "none", last_accessed |-> 0, created_at |-> 0, updated_at |-> 0]

\* A model built with none of its timestamps given: the default factories
\* datetime.now(UTC) run in the order of the fields, last_accessed, created_at,
\* updated_at, and the clock has advanced by d1 and then d2 between them.
Defaults(model, d1, d2) ==
    [model |-> model, last_accessed |-> clock, created_at |-> clock + d1,
     updated_at |-> clock + d1 + d2]

\* MemoryRecord(id=..., text=...) or WorkingMemory(session_id=...).
Construct(model, d1, d2) ==
    /\ clock + d1 + d2 <= MaxClock
    /\ made' = Defaults(model, d1, d2)
    /\ clock' = clock + d1 + d2
    /\ UNCHANGED <<process_vars, store_vars, redis_conn, indexed, adapter, extraction, results,
                   tagging, prompt>>

\* Time passes.
Tick ==
    /\ clock < MaxClock
    /\ clock' = clock + 1
    /\ UNCHANGED <<process_vars, store_vars, redis_conn, indexed, adapter, extraction, made,
                   results, tagging, prompt>>

----------------------------------------------------------------------------
(* The extractor: discrete memory extraction and topic extraction by LLM *)

\* stop_after_attempt(3).
MaxAttempts == 3

\* No topic or entity extraction was called yet.
NotTagged ==
    [op |-> "none", results |-> <<>>, raised |-> FALSE, num_topics |-> 0,
     item |-> [topics |-> {}, entities |-> {}],
     enable_topic_extraction |-> FALSE, enable_ner |-> FALSE,
     extracted |-> [topics |-> {}, entities |-> {}],
     calls |-> {}, topics |-> <<>>, entities |-> {},
     tags |-> [topics |-> {}, entities |-> {}]]

\* Records the adapter holds at most.
MaxRecords == 3

\* ULIDs extraction generates at most.
MaxUlids == 2

\* A MemoryRecord of long-term storage: the fields extraction reads or sets.
StoredRecord(id, text, memory_type, namespace, user_id, session_id, pinned) ==
    [id |-> id, text |-> text, memory_type |-> memory_type,
     namespace |-> namespace, user_id |-> user_id, session_id |-> session_id,
     pinned |-> pinned, discrete_memory_extracted |-> "f", extracted_from |-> {}]

\* The records stored before extraction runs: a message of a session, a message
\* with no text, pinned or not, and a memory a client created.
SourceRecords ==
    { StoredRecord(1, "user: I love Paris", "message", "test-namespace", "u1",
                   "test-session", FALSE) }
    \cup { StoredRecord(2, "", "message", None, None, "test-session", pinned) :
              pinned \in BOOLEAN }
    \cup { [StoredRecord(3, "User likes tea", "semantic", None, "u1", None, TRUE)
               EXCEPT !.discrete_memory_extracted = "t"] }

\* What the model answers to one chat completion: a JSON object with a list of
\* memories, an exception of the call, text that is not JSON, or JSON of
\* another shape.
Failures == {"raise", "not_json", "bad_shape"}

\* The answers to the attempts of one retried call: `fails` failures of one
\* kind, then well-formed answers.
Responses(kind, fails) == [i \in 1..MaxAttempts |-> IF i <= fails THEN kind ELSE "ok"]

ResponseSeqs == { Responses(kind, fails) : kind \in Failures, fails \in 0..MaxAttempts }

\* The memories the model extracts from a message.
LLMMemories(text) ==
    IF text = "user: I love Paris"
    THEN << [type |-> "episodic", text |-> "User loves Paris"] >>
    ELSE <<>>

\* The topics the model names for a text.
LLMTopics == << "travel", "Paris", "France" >>

\* An attempt of extract_topics_llm: an exception of the call leaves the
\* attempt, an answer that cannot be decoded is logged and taken as no topics.
TopicsAttempt(response) == IF response = "raise" THEN "raised" ELSE "done"

\* DiscreteAttempt, were an undecodable or malformed answer logged and dropped.
DiscreteAttemptDropped(response) == IF response = "raise" THEN "raised" ELSE "done"

\* An attempt of extract_discrete_memories: an exception of the call, a JSON
\* decoding error and a failed shape assertion all leave the attempt raised.
DiscreteAttempt(response) == IF response = "ok" THEN "done" ELSE "raised"

\* AsyncRetrying(stop=stop_after_attempt(3)): attempts from the n-th on, until
\* one is done or the last one has raised.
RECURSIVE Retrying(_, _)
Retrying(outcomes, n) ==
    IF outcomes[n] = "done" THEN [status |-> "ok", attempts |-> n]
    ELSE IF n >= MaxAttempts THEN [status |-> "RetryError", attempts |-> n]
    ELSE Retrying(outcomes, n + 1)

\* The MemoryRecord extraction builds from an extracted memory.
ExtractedRecord(id, new_memory) ==
    [id |-> id, text |-> new_memory.text, memory_type |-> new_memory.type,
     namespace |-> None, user_id |-> None, session_id |-> None,
     pinned |-> FALSE, discrete_memory_extracted |-> "t", extracted_from |-> {}]

NotExtracted ==
    [called |-> FALSE, op |-> "none", status |-> "", attempts |-> <<>>,
     deleted |-> <<>>, produced |-> <<>>, ulids |-> 0, topics |-> <<>>,
     batch |-> <<>>, marked |-> {}, added |-> {}, lost |-> {}]

\* The locals of extract_discrete_memories before its loop.
NoMemories ==
    [status |-> "ok", attempts |-> <<>>, deleted |-> <<>>,
     new_discrete_memories |-> <<>>, updated_memories |-> {}]

\* The loop of extract_discrete_memories over the memories: a memory with no
\* text is deleted; any other is sent to the model under retry, and marked
\* once an attempt is done. A RetryError leaves the loop and the function.
RECURSIVE ExtractLoop(_, _, _)
ExtractLoop(memories, responses, acc) ==
    IF memories = <<>> THEN acc
    ELSE LET memory == Head(memories)
             r == Retrying([i \in 1..MaxAttempts |->
                               DiscreteAttempt(responses[memory.id][i])], 1)
             tried == Append(acc.attempts,
                             [id |-> memory.id, responses |-> responses[memory.id],
                              attempts |-> r.attempts])
             new == LLMMemories(memory.text)
         IN  IF memory.text = ""
             THEN ExtractLoop(Tail(memories), responses,
                              [acc EXCEPT !.deleted = Append(@, memory)])
             ELSE IF r.status = "RetryError"
             THEN [acc EXCEPT !.status = "RetryError", !.attempts = tried]
             ELSE ExtractLoop(Tail(memories), responses,
                      [acc EXCEPT
                          !.attempts = tried,
                          !.new_discrete_memories =
                              @ \o [i \in 1..Len(new) |->
                                        [source |-> memory, memory |-> new[i]]],
                          !.updated_memories = @ \cup {memory.id}])

\* adapter.delete_memories of the records in `deleted`.
delete_memories(stored, deleted) ==
    SelectIdx(stored, { i \in DOMAIN stored :
                          \A j \in DOMAIN deleted : deleted[j].id # stored[i].id }, 1)

\* adapter.update_memories: the records of the given ids are marked extracted.
update_memories(stored, ids) ==
    [i \in DOMAIN stored |->
        IF stored[i].id \in ids
        THEN [stored[i] EXCEPT !.discrete_memory_extracted = "t"] ELSE stored[i]]

\* index(records, deduplicate=true): a record whose text and scope are those of
\* a stored record is merged into it, any other is handed to the adapter.
RECURSIVE index_long_term_memories(_, _)
index_long_term_memories(stored, records) ==
    IF records = <<>> THEN stored
    ELSE LET r == Head(records)
             dup == \E i \in DOMAIN stored :
                       memory_hash(stored[i].text, stored[i].user_id,
                                   stored[i].session_id, stored[i].namespace)
                       = memory_hash(r.text, r.user_id, r.session_id, r.namespace)
         IN  index_long_term_memories(IF dup THEN stored ELSE Append(stored, r),
                                      Tail(records))

\* The messages not yet processed: memory_type message, discrete_memory_extracted "f".
search_memories(stored) ==
    SelectIdx(stored, { i \in DOMAIN stored :
                          /\ stored[i].memory_type = "message"
                          /\ stored[i].discrete_memory_extracted = "f" }, 1)

\* The store a RetryError would leave, were the records processed before it
\* marked.
RetryErrorRaisedMarking(kept, updated_memories) ==
    update_memories(kept, updated_memories)

\* The store a RetryError leaves: it is raised out of the loop and of the
\* function, before update_memories, so only the deletions were made.
RetryErrorRaised(kept, updated_memories) == kept

\* The store a failed indexing would leave, were the marks taken back.
IndexRaisedReverting(kept, marked) == kept

\* The store a failed indexing leaves: update_memories was awaited before
\* index_long_term_memories was called, and nothing undoes it.
IndexRaised(kept, marked) == marked

\* extract_discrete_memories(memories, deduplicate): `given` is the memories
\* argument, `responses` the answers of the model to the attempts made for
\* each memory, and index_ok whether index_long_term_memories returns or
\* raises before it stores anything.
extract_discrete_memories(given, responses, index_ok) ==
    LET memories == IF given = <<>> THEN search_memories(adapter) ELSE given
        acc == ExtractLoop(memories, responses, NoMemories)
        new == acc.new_discrete_memories
        long_term_memories ==
            [i \in 1..Len(new) |->
                ExtractedRecord(100 + extraction.ulids + i, new[i].memory)]
        kept == delete_memories(adapter, acc.deleted)
        marked == update_memories(kept, acc.updated_memories)
        done == acc.status = "ok" /\ (new = <<>> \/ index_ok)
        after == IF acc.status # "ok"
                 THEN RetryErrorRaised(kept, acc.updated_memories)
                 ELSE IF new # <<>> /\ ~index_ok THEN IndexRaised(kept, marked)
                 ELSE index_long_term_memories(marked, long_term_memories)
    IN  /\ extraction.ulids + Len(new) <= MaxUlids
        /\ adapter' = after
        /\ Len(after) <= MaxRecords
        /\ extraction' =
               [called |-> TRUE, op |-> "discrete",
                status |-> IF acc.status = "ok" /\ ~done THEN "IndexError"
                           ELSE acc.status,
                attempts |-> acc.attempts, deleted |-> acc.deleted,
                produced |-> IF done
                             THEN [i \in 1..Len(new) |->
                                      [source |-> new[i].source,
                                       record |-> long_term_memories[i]]]
                             ELSE <<>>,
                ulids |-> extraction.ulids + (IF done THEN Len(new) ELSE 0),
                topics |-> <<>>,
                batch |-> memories,
                marked |-> IF acc.status = "ok" THEN acc.updated_memories ELSE {},
                added |-> { after[i].id : i \in DOMAIN after }
                          \ { adapter[i].id : i \in DOMAIN adapter },
                lost |-> IF acc.status = "ok" /\ ~done
                         THEN { long_term_memories[i].id :
                                  i \in DOMAIN long_term_memories }
                         ELSE {}]
        /\ tagging' = NotTagged
        /\ UNCHANGED <<process_vars, store_vars, redis_conn, indexed, clock, made, results,
                       prompt>>

\* extract_topics_llm(text, num_topics, client): the topics of the first
\* attempt that is done, cut to num_topics.
extract_topics_llm(num_topics, responses) ==
    LET r == Retrying([i \in 1..MaxAttempts |-> TopicsAttempt(responses[i])], 1)
        topics == IF r.status = "ok" /\ responses[r.attempts] = "ok"
                  THEN SubSeq(LLMTopics, 1, num_topics) ELSE <<>>
    IN  /\ extraction' =
               [called |-> TRUE, op |-> "topics", status |-> r.status,
                attempts |-> << [id |-> 0, responses |-> responses,
                                 attempts |-> r.attempts] >>,
                deleted |-> <<>>, produced |-> <<>>, ulids |-> extraction.ulids,
                topics |-> topics, batch |-> <<>>, marked |-> {}, added |-> {},
                lost |-> {}]
        /\ tagging' = [NotTagged EXCEPT !.op = "extract_topics_llm",
                                        !.num_topics = num_topics,
                                        !.topics = topics]
        /\ UNCHANGED <<process_vars, store_vars, redis_conn, indexed, adapter, clock, made,
                       results, prompt>>

\* A record reaches long-term storage by an insert of the API or by promotion.
create_long_term_memory(record) ==
    /\ Len(adapter) < MaxRecords
    /\ \A i \in DOMAIN adapter : adapter[i].id # record.id
    /\ adapter' = Append(adapter, record)
    /\ extraction' = [NotExtracted EXCEPT !.ulids = extraction.ulids]
    /\ tagging' = NotTagged
    /\ UNCHANGED <<process_vars, store_vars, redis_conn, indexed, clock, made, results,
                   prompt>>

----------------------------------------------------------------------------
(* Topic and entity tagging: extract_entities, extract_topics_bertopic and *)
(* handle_extraction                                                        *)

\* Tokens the NER pipeline returns for one text, at most.
MaxTokens == 3

\* settings.top_k_topics.
TopKTopics == 3

\* The continuation marker of a subword token.
Marker == "##"

\* The words of the tokens, each a sequence of pieces: "##View" is the marker
\* followed by "View".
NerWords == { <<"John">>, <<"Google">>, <<"Mountain">>, <<Marker, "View">> }

NerResults == UNION { [1..n -> NerWords] : n \in 0..MaxTokens }

\* word.startswith("##")
startswith(word) == Len(word) > 0 /\ word[1] = Marker

\* "".join(current_entity)
RECURSIVE join(_)
join(current_entity) ==
    IF current_entity = <<>> THEN <<>>
    ELSE Head(current_entity) \o join(Tail(current_entity))

\* The loop of extract_entities over the tokens from the i-th on, and the
\* entity left at its end.
RECURSIVE GroupTokens(_, _, _, _)
GroupTokens(ner_results, i, current_entity, entities) ==
    IF i > Len(ner_results)
    THEN IF current_entity # <<>> THEN Append(entities, join(current_entity))
         ELSE entities
    ELSE IF startswith(ner_results[i])
    THEN GroupTokens(ner_results, i + 1, Append(current_entity, Tail(ner_results[i])),
                     entities)
    ELSE GroupTokens(ner_results, i + 1, << ner_results[i] >>,
                     IF current_entity # <<>>
                     THEN Append(entities, join(current_entity)) ELSE entities)

\* What extract_entities returns, as a set: list(set(entities)), and [] when
\* the model raises.
Entities(ner_results, ner_ok) ==
    IF ner_ok
    THEN LET entities == GroupTokens(ner_results, 1, <<>>, <<>>)
         IN  { entities[i] : i \in DOMAIN entities }
    ELSE {}

\* The words model.get_topic gives for a topic.
TopicInfo == << "technology", "business" >>

\* The loop of extract_topics_bertopic over topic_indices from the i-th on
\* (i counts from 0 in the source): a topic other than the outlier -1 adds
\* every word of its topic_info.
RECURSIVE TopicWords(_, _, _)
TopicWords(topic_indices, i, num_topics) ==
    IF i > Len(topic_indices) THEN <<>>
    ELSE IF num_topics # 0 /\ i - 1 >= num_topics THEN <<>>
    ELSE (IF topic_indices[i] # -1 THEN TopicInfo ELSE <<>>)
         \o TopicWords(topic_indices, i + 1, num_topics)

\* num_topics left at its default, None.
NoNumTopics == -1

\* num_topics if num_topics is not None else settings.top_k_topics
NumTopics(num_topics) ==
    IF num_topics # NoNumTopics THEN num_topics ELSE TopKTopics

\* The items handle_extraction is applied to: their topics and entities.
Items ==
    { [topics |-> {}, entities |-> {}],
      [topics |-> {"meeting"}, entities |-> {<<"Sarah">>}] }

\* The tokens of the text of the items.
ItemTokens == << <<"John">>, <<"Google">>, <<"Mountain">>, <<Marker, "View">> >>

\* extract_entities(text): ner_results are the tokens ner(text) returns.
extract_entities(ner_results, ner_ok) ==
    /\ tagging' = [NotTagged EXCEPT !.op = "extract_entities",
                                    !.results = ner_results, !.raised = ~ner_ok,
                                    !.entities = Entities(ner_results, ner_ok)]
    /\ extraction' = [NotExtracted EXCEPT !.ulids = extraction.ulids]
    /\ UNCHANGED <<process_vars, store_vars, redis_conn, indexed, adapter, clock, made, results,
                   prompt>>

\* extract_topics_bertopic(text, num_topics): model.transform([text]) gives one
\* topic index for the one text.
extract_topics_bertopic(topic_idx, num_topics) ==
    /\ tagging' = [NotTagged EXCEPT
           !.op = "extract_topics_bertopic",
           !.num_topics = NumTopics(num_topics),
           !.topics = TopicWords(<< topic_idx >>, 1, NumTopics(num_topics))]
    /\ extraction' = [NotExtracted EXCEPT !.ulids = extraction.ulids]
    /\ UNCHANGED <<process_vars, store_vars, redis_conn, indexed, adapter, clock, made, results,
                   prompt>>

\* handle_extraction, were it to run the entity extractor whatever enable_ner.
handle_extraction_always_ner(item, enable_topic_extraction, enable_ner, source) ==
    LET topics == IF ~enable_topic_extraction THEN <<>>
                  ELSE IF source = "BERTopic"
                  THEN TopicWords(<< 1 >>, 1, TopKTopics)
                  ELSE SubSeq(LLMTopics, 1, TopKTopics)
        entities == Entities(ItemTokens, TRUE)
    IN  /\ tagging' = [NotTagged EXCEPT
               !.op = "handle_extraction",
               !.item = item,
               !.enable_topic_extraction = enable_topic_extraction,
               !.enable_ner = enable_ner,
               !.extracted = [topics |-> { topics[i] : i \in DOMAIN topics },
                              entities |-> entities],
               !.calls = (IF enable_topic_extraction
                          THEN { IF source = "BERTopic"
                                 THEN "extract_topics_bertopic"
                                 ELSE "extract_topics_llm" }
                          ELSE {})
                         \cup {"extract_entities"},
               !.tags = [topics |-> { topics[i] : i \in DOMAIN topics },
                         entities |-> entities]]
        /\ extraction' = [NotExtracted EXCEPT !.ulids = extraction.ulids]
        /\ UNCHANGED <<process_vars, store_vars, redis_conn, indexed, adapter, clock, made,
                       results, prompt>>

\* handle_extraction(text): each extractor runs when its setting enables it
\* (source is settings.topic_model_source), and the topics and entities
\* returned are those extracted, without duplicates. The topics and entities
\* the item already has are not read.
handle_extraction(item, enable_topic_extraction, enable_ner, source) ==
    LET topics == IF ~enable_topic_extraction THEN <<>>
                  ELSE IF source = "BERTopic"
                  THEN TopicWords(<< 1 >>, 1, TopKTopics)
                  ELSE SubSeq(LLMTopics, 1, TopKTopics)
        entities == IF enable_ner THEN Entities(ItemTokens, TRUE) ELSE {}
    IN  /\ tagging' = [NotTagged EXCEPT
               !.op = "handle_extraction",
               !.item = item,
               !.enable_topic_extraction = enable_topic_extraction,
               !.enable_ner = enable_ner,
               !.extracted = [topics |-> { topics[i] : i \in DOMAIN topics },
                              entities |-> entities],
               !.calls = (IF enable_topic_extraction
                          THEN { IF source = "BERTopic"
                                 THEN "extract_topics_bertopic"
                                 ELSE "extract_topics_llm" }
                          ELSE {})
                         \cup (IF enable_ner THEN {"extract_entities"} ELSE {}),
               !.tags = [topics |-> { topics[i] : i \in DOMAIN topics },
                         entities |-> entities]]
        /\ extraction' = [NotExtracted EXCEPT !.ulids = extraction.ulids]
        /\ UNCHANGED <<process_vars, store_vars, redis_conn, indexed, adapter, clock, made,
                       results, prompt>>

----------------------------------------------------------------------------
(* The prompt hydrator *)

\* No session is named in the request.
NoSessionKey == << None, None >>

NotHydrated ==
    [called |-> FALSE, status |-> "", query |-> "", key |-> NoSessionKey,
     session |-> NoSession, memories |-> <<>>, messages |-> <<>>]

\* The texts the long-term search returns for the query.
MemoryTexts == { <<>>, << "User: Hello", "Assistant: Hi there" >> }

\* Step 2: the context as a system message.
SummaryMessage(context) ==
    [role |-> "system", content |-> "Summary of prior conversation: " \o context]

\* The bulleted lines of the long-term memories.
RECURSIVE Bulleted(_)
Bulleted(texts) ==
    IF texts = <<>> THEN ""
    ELSE "- " \o Head(texts) \o "\n" \o Bulleted(Tail(texts))

\* Step 4: the results of the search as one system message.
LongTermMessage(texts) ==
    [role |-> "system",
     content |-> "Long term memories related to the user's query:\n"
                 \o Bulleted(texts)]

\* Step 5: the query as a user message.
UserMessage(query) == [role |-> "user", content |-> query]

\* Step 3: the messages of the session.
SessionMessages(wm) ==
    [i \in 1..Len(wm.messages) |->
        [role |-> wm.messages[i].role, content |-> wm.messages[i].content]]

\* Hydrate, were the query put first.
HydrateQueryFirst(query, session, texts) ==
    << UserMessage(query) >>
    \o (IF session.exists /\ session.wm.context # None
        THEN << SummaryMessage(session.wm.context) >> ELSE <<>>)
    \o (IF session.exists THEN SessionMessages(session.wm) ELSE <<>>)
    \o (IF texts # <<>> THEN << LongTermMessage(texts) >> ELSE <<>>)

\* hydrate(query, session?, long_term_search?) -> messages[]: the summary, the
\* messages of the session, the long-term memories and the query, in this
\* order. A session that is not found contributes nothing.
Hydrate(query, session, texts) ==
    (IF session.exists /\ session.wm.context # None
     THEN << SummaryMessage(session.wm.context) >> ELSE <<>>)
    \o (IF session.exists THEN SessionMessages(session.wm) ELSE <<>>)
    \o (IF texts # <<>> THEN << LongTermMessage(texts) >> ELSE <<>>)
    \o << UserMessage(query) >>

\* The memory prompt request: k names the session, or is NoSessionKey.
hydrate_memory_prompt(query, k, texts) ==
    LET got == IF k = NoSessionKey THEN [status |-> "404", wm |-> EmptyWorkingMemory]
               ELSE get_session_memory(k)
        session == [exists |-> got.status = "200", wm |-> got.wm]
    IN  /\ prompt' = [called |-> TRUE, status |-> "200", query |-> query,
                      key |-> k, session |-> session, memories |-> texts,
                      messages |-> Hydrate(query, session, texts)]
        /\ UNCHANGED <<process_vars, store_vars, redis_conn, indexed, adapter, extraction,
                       clock, made, results, tagging>>

----------------------------------------------------------------------------
(* The paging loop of extract_discrete_memories                             *)

\* Unprocessed messages the store holds at most.
MaxMessages == 51

\* limit=25, and the step of the offset.
PageSize == 25

NotScanning ==
    [pc |-> "idle", stored |-> 0, offset |-> 0, memories |-> <<>>, pages |-> 0]

\* adapter.search_memories(query="", memory_type=message,
\* discrete_memory_extracted="f", limit, offset) over `stored` unprocessed
\* messages, numbered in the order of the search, which does not change while
\* the store is not modified: the ids of the page.
SearchPage(stored, limit, offset) ==
    [i \in 1..(IF stored - offset > limit THEN limit
               ELSE IF stored - offset > 0 THEN stored - offset ELSE 0)
        |-> offset + i]

\* The test that leaves the loop, were a full page the last one.
LastPageAtMost(page) == Len(page) <= PageSize

\* `if len(search_result.memories) < 25: break`
LastPage(page) == Len(page) < PageSize

\* extract_discrete_memories is called without memories, the store holding
\* `stored` unprocessed messages: memories = [], offset = 0.
StartScan(stored) ==
    /\ scan.pc # "scanning"
    /\ scan' = [pc |-> "scanning", stored |-> stored, offset |-> 0,
                memories |-> <<>>, pages |-> 0]
    /\ UNCHANGED <<store_vars, engine_vars, redis_conn, indexed, results,
                   served, loaded, resolved>>

\* One turn of `while True`: a page is searched and added to memories, and the
\* loop is left after a page that is not full.
NextPage ==
    /\ scan.pc = "scanning"
    /\ LET page == SearchPage(scan.stored, PageSize, scan.offset)
       IN  scan' = [scan EXCEPT
                       !.memories = @ \o page,
                       !.pages = @ + 1,
                       !.pc = IF LastPage(page) THEN "done" ELSE "scanning",
                       !.offset = IF LastPage(page) THEN @ ELSE @ + PageSize]
    /\ UNCHANGED <<store_vars, engine_vars, redis_conn, indexed, results,
                   served, loaded, resolved>>

ScanNext ==
    \/ \E stored \in 0..MaxMessages : StartScan(stored)
    \/ NextPage

----------------------------------------------------------------------------
(* The registry of models: MODEL_CONFIGS, get_model_config, get_client and  *)
(* the model_name of a WorkingMemoryRequest                                 *)

\* Some of the entries of MODEL_CONFIGS.
MODEL_CONFIGS ==
    [model_name \in {"gpt-3.5-turbo", "gpt-4o", "gpt-4o-mini", "o1",
                     "claude-3-opus-latest"} |->
        [provider |-> IF model_name = "claude-3-opus-latest"
                      THEN "anthropic" ELSE "openai",
         name |-> IF model_name = "claude-3-opus-latest"
                  THEN "claude-3-opus-20240229" ELSE model_name,
         max_tokens |-> CASE model_name = "gpt-3.5-turbo" -> 4096
                          [] model_name \in {"gpt-4o", "gpt-4o-mini"} -> 128000
                          [] OTHER -> 200000,
         embedding_dimensions |-> 1536]]

\* The names ModelNameLiteral lists, which are the keys of MODEL_CONFIGS.
ModelNameLiteral == DOMAIN MODEL_CONFIGS

\* The names a caller may give: those of the registry and two it does not know.
ModelNames == ModelNameLiteral \cup {"gpt-5", "llama-3"}

NoConfig ==
    [provider |-> None, name |-> None, max_tokens |-> 0, embedding_dimensions |-> 0]

NotServed ==
    [called |-> FALSE, op |-> "none", model_name |-> None, result |-> "",
     config |-> NoConfig, session_id |-> None, namespace |-> None,
     user_id |-> None, context_window_max |-> 0]

\* get_model_config(model_name): the entry of the name, and for a name the
\* registry does not know a warning and the entry of gpt-4o-mini.
get_model_config(model_name) ==
    IF model_name \in DOMAIN MODEL_CONFIGS THEN MODEL_CONFIGS[model_name]
    ELSE MODEL_CONFIGS["gpt-4o-mini"]

\* ModelClientFactory.get_client(model_name): the client wrapper of the
\* provider of the configuration found for the name.
get_client(model_name) ==
    LET model_config == get_model_config(model_name)
    IN  /\ served' =
               [NotServed EXCEPT
                   !.called = TRUE, !.op = "get_client",
                   !.model_name = model_name, !.config = model_config,
                   !.result =
                       IF model_config.provider = "openai" THEN "OpenAIClientWrapper"
                       ELSE IF model_config.provider = "anthropic"
                       THEN "AnthropicClientWrapper"
                       ELSE "ValueError"]
        /\ UNCHANGED <<store_vars, engine_vars, redis_conn, indexed, results,
                       scan, loaded, resolved>>

\* WorkingMemoryRequest(...): the model is built when model_name is None or one
\* of ModelNameLiteral, and validation fails otherwise.
WorkingMemoryRequest(session_id, namespace, user_id, model_name, context_window_max) ==
    /\ served' =
           [NotServed EXCEPT
               !.called = TRUE, !.op = "WorkingMemoryRequest",
               !.model_name = model_name, !.session_id = session_id,
               !.namespace = namespace, !.user_id = user_id,
               !.context_window_max = context_window_max,
               !.result = IF model_name = None \/ model_name \in ModelNameLiteral
                          THEN "ok" ELSE "ValidationError"]
    /\ UNCHANGED <<store_vars, engine_vars, redis_conn, indexed, results,
                   scan, loaded, resolved>>

RegistryNext ==
    \/ \E model_name \in ModelNames : get_client(model_name)
    \/ \E session_id \in SessionIds, namespace \in Namespaces,
          user_id \in {None, "u1"}, model_name \in ModelNames \cup {None},
          context_window_max \in {0, 4000} :
          WorkingMemoryRequest(session_id, namespace, user_id, model_name,
                               context_window_max)

----------------------------------------------------------------------------
(* The lazily loaded models: get_topic_model and get_ner_model              *)

\* Callers of the two functions in one process.
MaxCallers == 2

Callers == 1..MaxCallers

\* Objects the process creates at most: models, tokenizers and pipelines,
\* numbered from 1 in the order of their creation; 0 stands for None.
MaxObjects == 5

NotCalling == [pc |-> "idle", fn |-> "none", got |-> 0, model |-> 0]

\* The module globals _topic_model, _ner_model and _ner_tokenizer, the number
\* of loads of each model, and the position and the result of each caller.
NotLoaded ==
    [_topic_model |-> 0, _ner_model |-> 0, _ner_tokenizer |-> 0, objects |-> 0,
     loads |-> [topic |-> 0, ner |-> 0],
     callers |-> [c \in Callers |-> NotCalling]]

\* get_topic_model(), up to `if _topic_model is None`: the caller goes on to
\* load the model, or returns the global.
TopicCheck(c) ==
    /\ loaded.callers[c].pc = "idle"
    /\ loaded' = [loaded EXCEPT !.callers[c] =
                     IF loaded._topic_model = 0
                     THEN [pc |-> "loading", fn |-> "topic", got |-> 0, model |-> 0]
                     ELSE [pc |-> "idle", fn |-> "topic",
                           got |-> loaded._topic_model,
                           model |-> loaded._topic_model]]
    /\ UNCHANGED <<store_vars, engine_vars, redis_conn, indexed, results,
                   scan, served, resolved>>

\* _topic_model = BERTopic.load(...); return _topic_model
TopicLoad(c) ==
    /\ loaded.callers[c].pc = "loading"
    /\ loaded.callers[c].fn = "topic"
    /\ loaded.objects + 1 <= MaxObjects
    /\ loaded' = [loaded EXCEPT
                     !._topic_model = loaded.objects + 1,
                     !.objects = @ + 1,
                     !.loads.topic = @ + 1,
                     !.callers[c] = [pc |-> "idle", fn |-> "topic",
                                     got |-> loaded.objects + 1,
                                     model |-> loaded.objects + 1]]
    /\ UNCHANGED <<store_vars, engine_vars, redis_conn, indexed, results,
                   scan, served, resolved>>

\* get_ner_model(), up to `if _ner_model is None`: the caller goes on to load
\* the tokenizer and the model, or returns a new pipeline over the globals.
NerCheck(c) ==
    /\ loaded.callers[c].pc = "idle"
    /\ loaded._ner_model # 0 => loaded.objects + 1 <= MaxObjects
    /\ loaded' = IF loaded._ner_model = 0
                 THEN [loaded EXCEPT !.callers[c] =
                          [pc |-> "loading", fn |-> "ner", got |-> 0, model |-> 0]]
                 ELSE [loaded EXCEPT
                          !.objects = @ + 1,
                          !.callers[c] = [pc |-> "idle", fn |-> "ner",
                                          got |-> loaded.objects + 1,
                                          model |-> loaded._ner_model]]
    /\ UNCHANGED <<store_vars, engine_vars, redis_conn, indexed, results,
                   scan, served, resolved>>

\* _ner_tokenizer = AutoTokenizer.from_pretrained(...); _ner_model =
\* AutoModelForTokenClassification.from_pretrained(...); return pipeline(...)
NerLoad(c) ==
    /\ loaded.callers[c].pc = "loading"
    /\ loaded.callers[c].fn = "ner"
    /\ loaded.objects + 3 <= MaxObjects
    /\ loaded' = [loaded EXCEPT
                     !._ner_tokenizer = loaded.objects + 1,
                     !._ner_model = loaded.objects + 2,
                     !.objects = @ + 3,
                     !.loads.ner = @ + 1,
                     !.callers[c] = [pc |-> "idle", fn |-> "ner",
                                     got |-> loaded.objects + 3,
                                     model |-> loaded.objects + 2]]
    /\ UNCHANGED <<store_vars, engine_vars, redis_conn, indexed, results,
                   scan, served, resolved>>

LoadNext ==
    \E c \in Callers :
        \/ TopicCheck(c)
        \/ TopicLoad(c)
        \/ NerCheck(c)
        \/ NerLoad(c)

----------------------------------------------------------------------------
(* The namespace the client helpers read and write                          *)

\* The namespace argument of a helper: none, the empty string, or a name.
NamespaceArgs == {None, "", "my-namespace"}

NotResolved ==
    [pc |-> "idle", helper |-> "none", session_id |-> None, namespace |-> None,
     default_namespace |-> None, fetched |-> FALSE, read |-> None,
     write |-> None]

\* The first half of set_working_memory_data and add_memories_to_working_memory
\* of a client configured with default_namespace: get_session_memory is called
\* with the namespace argument, unless preserve_existing is false, and sends
\* the namespace of GetKey.
HelperRead(c, helper, namespace, default_namespace, preserve_existing) ==
    LET p == [session_id |-> "test-session", namespace |-> namespace,
              default_namespace |-> default_namespace]
        fetched == helper = "add_memories_to_working_memory" \/ preserve_existing
    IN  /\ resolved[c].pc # "read"
        /\ resolved' = [resolved EXCEPT ![c] =
              [pc |-> "read", helper |-> helper, session_id |-> p.session_id,
               namespace |-> namespace, default_namespace |-> default_namespace,
               fetched |-> fetched,
               read |-> IF fetched THEN GetKey(p)[1] ELSE None,
               write |-> None]]
        /\ UNCHANGED <<store_vars, engine_vars, redis_conn, indexed, results,
                       scan, served, loaded>>

\* The second half: the WorkingMemory is built and put_session_memory sends it
\* with the namespace of PutKey.
HelperWrite(c) ==
    /\ resolved[c].pc = "read"
    /\ resolved' = [resolved EXCEPT ![c].pc = "done",
                                    ![c].write = PutKey(resolved[c])[1]]
    /\ UNCHANGED <<store_vars, engine_vars, redis_conn, indexed, results,
                   scan, served, loaded>>

NamespaceNext ==
    \/ \E c \in Clients, namespace \in NamespaceArgs,
          default_namespace \in Namespaces, preserve_existing \in BOOLEAN,
          helper \in {"set_working_memory_data", "add_memories_to_working_memory"} :
          HelperRead(c, helper, namespace, default_namespace, preserve_existing)
    \/ \E c \in Clients : HelperWrite(c)


----------------------------------------------------------------------------
(* The initial state *)

Init ==
    /\ long_term_memory \in BOOLEAN
    /\ sessions = [k \in Keys |-> NoSession]
    /\ version = [k \in Keys |-> 0]
    /\ queue = <<>>
    /\ running = [w \in Workers |-> Idle]
    /\ written = [k \in Keys |-> NotWritten]
    /\ promoted = [k \in Keys |-> {}]
    /\ last = [op |-> "init", key |-> MainKey, result |-> "", calls |-> <<>>,
               dropped |-> 0, again |-> FALSE, before |-> NoSession]
    /\ procs = [c \in Clients |-> NoCall]
    /\ redis_conn = <<>>
    /\ indexed = NotIndexed
    /\ session_list = [ns \in Namespaces |-> <<>>]
    /\ absent = [k \in Keys |-> TRUE]
    /\ adapter = <<>>
    /\ extraction = NotExtracted
    /\ clock = 0
    /\ made = NotMade
    /\ results = NoResults
    /\ tagging = NotTagged
    /\ prompt = NotHydrated
    /\ scan = NotScanning
    /\ served = NotServed
    /\ loaded = NotLoaded
    /\ resolved = [c \in Clients |-> NotResolved]

\* The writes served so far, over all session keys.
Writes ==
    LET sum[S \in SUBSET Keys] ==
            IF S = {} THEN 0
            ELSE LET k == CHOOSE x \in S : TRUE IN version[k] + sum[S \ {k}]
    IN  sum[Keys]

Put(k, wm) ==
    /\ Writes < MaxWrites
    /\ set_session_memory("put", k, wm)
    /\ UNCHANGED <<procs, redis_conn, indexed>>
    /\ UNCHANGED <<process_vars, engine_vars, results>>

\* put(get(s)): the WorkingMemory just read is written back.
PutGet(k) ==
    /\ Writes < MaxWrites
    /\ get_session_memory(k).status = "200"
    /\ set_session_memory("putget", k, get_session_memory(k).wm)
    /\ UNCHANGED <<procs, redis_conn, indexed>>
    /\ UNCHANGED <<process_vars, engine_vars, results>>

Delete(k) ==
    /\ Writes < MaxWrites
    /\ delete_session_memory(k)
    /\ UNCHANGED <<procs, redis_conn, indexed>>
    /\ UNCHANGED <<process_vars, engine_vars, results>>

Start(w) ==
    /\ StartTask(w)
    /\ UNCHANGED <<procs, redis_conn, indexed>>
    /\ UNCHANGED <<process_vars, engine_vars, results>>

RunSummarize(w, cw, llm_ok) ==
    /\ summarize_session(w, cw, llm_ok)
    /\ UNCHANGED <<procs, redis_conn, indexed>>
    /\ UNCHANGED <<process_vars, engine_vars, results>>

RunIndex(w) ==
    /\ index_task(w)
    /\ UNCHANGED <<procs, redis_conn, indexed>>
    /\ UNCHANGED <<process_vars, engine_vars, results>>

Next ==
    \/ \E k \in SessionKeys : \E wm \in PutInputs(k) : Put(k, wm)
    \/ \E k \in SessionKeys : PutGet(k)
    \/ \E k \in SessionKeys : Delete(k)
    \/ \E w \in Workers : Start(w)
    \/ \E w \in Workers, cw \in ContextWindows, llm_ok \in BOOLEAN :
          RunSummarize(w, cw, llm_ok)
    \/ \E w \in Workers : RunIndex(w)

Spec == Init /\ [][Next]_vars

----------------------------------------------------------------------------
(* The client helpers against the store *)

\* The WorkingMemory a session holds before the helpers are called.
SeedInputs ==
    { [messages |-> << MemoryMessage(AllMessages[1], Unset) >>,
       memories |-> << MemoryRecord("seed", "User is called Sam", Unset) >>,
       data |-> "theme=light", context |-> "Sample context", user_id |-> "u1"] }

ClientNext ==
    \/ \E k \in SessionKeys : \E wm \in SeedInputs : Put(k, wm)
    \/ \E c \in Clients, op \in {"add", "data"}, ns \in Namespaces,
          flag \in BOOLEAN, ok \in BOOLEAN :
          ClientRead(c, op, ns, flag, IF op = "add" THEN ClientMemories(c) ELSE <<>>,
                     IF op = "data" THEN "theme=dark" ELSE None, ok)
    \/ \E c \in Clients : ClientWrite(c)

\* The helpers are run with long-term memory off: their puts schedule no task.
ClientInit == Init /\ ~long_term_memory

ClientSpec == ClientInit /\ [][ClientNext]_vars

----------------------------------------------------------------------------
(* Sessions put, deleted and listed in several namespaces *)

\* Writes the store serves while sessions are listed.
MaxListed == 3

ListInputs == { [EmptyWorkingMemory EXCEPT !.context = "Sample context"] }

ListPut(k, wm) ==
    /\ Writes < MaxListed
    /\ set_session_memory("put", k, wm)
    /\ UNCHANGED <<procs, redis_conn, indexed>>
    /\ UNCHANGED <<process_vars, engine_vars, results>>

ListDelete(k) ==
    /\ Writes < MaxListed
    /\ delete_session_memory(k)
    /\ UNCHANGED <<procs, redis_conn, indexed>>
    /\ UNCHANGED <<process_vars, engine_vars, results>>

ListNext ==
    \/ \E k \in Keys : \E wm \in ListInputs : ListPut(k, wm)
    \/ \E k \in Keys : ListDelete(k)

ListSpec == Init /\ [][ListNext]_vars

----------------------------------------------------------------------------
(* index_messages as a state machine *)

IndexSessions == {"test-session", "other-session"}

IndexContents == {"Hello", " hello", "Hi there", ""}

IndexInputs ==
    SeqsUpTo({ [role |-> "user", content |-> t] : t \in IndexContents }, 2)

IndexNext ==
    \E messages \in IndexInputs, session_id \in IndexSessions, embedded \in BOOLEAN :
        \E stored \in 0..Len(messages) :
            index_messages(messages, session_id, embedded, stored)

IndexSpec == Init /\ [][IndexNext]_vars

----------------------------------------------------------------------------
(* The extractor as a state machine *)

\* The memories argument of extract_discrete_memories: none, or one stored
\* record.
GivenMemories == { <<>> } \cup { << adapter[i] >> : i \in DOMAIN adapter }

\* The ids of the memories an extraction call sends to the model.
Prompted(given) ==
    LET memories == IF given = <<>> THEN search_memories(adapter) ELSE given
    IN  { memories[i].id : i \in { j \in DOMAIN memories : memories[j].text # "" } }

ExtractNext ==
    \/ \E record \in SourceRecords : create_long_term_memory(record)
    \/ \E given \in GivenMemories :
          \E responses \in [Prompted(given) -> ResponseSeqs] :
              extract_discrete_memories(given, responses, TRUE)
    \/ \E num_topics \in 1..2, responses \in ResponseSeqs :
          extract_topics_llm(num_topics, responses)

\* Long-term memory is enabled, so that records can be created.
ExtractInit == Init /\ long_term_memory

ExtractSpec == ExtractInit /\ [][ExtractNext]_vars

----------------------------------------------------------------------------
(* Extraction over a batch of messages as a state machine *)

\* The messages of a session that reach long-term storage: two with text, the
\* first of which the model extracts a memory from, and one with none.
BatchRecords ==
    { StoredRecord(1, "user: I love Paris", "message", "test-namespace", "u1",
                   "test-session", FALSE),
      StoredRecord(4, "assistant: Noted", "message", "test-namespace", "u1",
                   "test-session", FALSE),
      StoredRecord(2, "", "message", None, None, "test-session", FALSE) }

\* The answers of the model to the attempts for one message of a batch: calls
\* that raise, then well-formed answers.
BatchResponses == { Responses("raise", fails) : fails \in 0..MaxAttempts }

\* The background task: extract_discrete_memories() over the unprocessed
\* messages of the store.
ExtractBatch ==
    \E responses \in [Prompted(<<>>) -> BatchResponses], index_ok \in BOOLEAN :
        extract_discrete_memories(<<>>, responses, index_ok)

BatchNext ==
    \/ \E record \in BatchRecords : create_long_term_memory(record)
    \/ ExtractBatch

BatchSpec == ExtractInit /\ [][BatchNext]_vars

\* The task runner keeps running the extraction task.
BatchFairSpec == BatchSpec /\ WF_vars(ExtractBatch)

----------------------------------------------------------------------------
(* The construction of models as a state machine *)

ModelsNext ==
    \/ \E model \in {"MemoryRecord", "WorkingMemory"}, d1, d2 \in 0..MaxElapsed :
          Construct(model, d1, d2)
    \/ Tick

ModelsSpec == Init /\ [][ModelsNext]_vars

----------------------------------------------------------------------------
(* Tagging as a state machine *)

TaggingNext ==
    \/ \E ner_results \in NerResults, ner_ok \in BOOLEAN :
          extract_entities(ner_results, ner_ok)
    \/ \E topic_idx \in {-1, 1}, num_topics \in {NoNumTopics, 0, 1, 2} :
          extract_topics_bertopic(topic_idx, num_topics)
    \/ \E num_topics \in 1..2, responses \in ResponseSeqs :
          extract_topics_llm(num_topics, responses)
    \/ \E item \in Items, enable_topic_extraction, enable_ner \in BOOLEAN,
          topic_model_source \in {"BERTopic", "LLM"} :
          handle_extraction(item, enable_topic_extraction, enable_ner,
                            topic_model_source)

TaggingSpec == Init /\ [][TaggingNext]_vars

----------------------------------------------------------------------------
(* Prompt hydration as a state machine *)

\* The WorkingMemory values the sessions are given before prompts are asked.
HydrateInputs == SeedInputs \cup ListInputs \cup OtherInputs

HydrateNext ==
    \/ \E k \in SessionKeys : \E wm \in HydrateInputs : Put(k, wm)
    \/ \E k \in SessionKeys : Delete(k)
    \/ \E k \in Keys \cup {NoSessionKey}, texts \in MemoryTexts :
          hydrate_memory_prompt("Test query", k, texts)

HydrateSpec == ClientInit /\ [][HydrateNext]_vars

----------------------------------------------------------------------------
(* Indexing and searching as a state machine *)

SearchNext ==
    \/ \E content \in {"Hello", "Hi there", ""}, session_id \in IndexSessions :
          index_messages(<< [role |-> "user", content |-> content] >>, session_id,
                         TRUE, 1)
    \/ \E query \in Queries, distance_threshold \in {NoThreshold, 0, 5},
          limit \in 1..MaxLimit :
          search_messages(query, "test-session", distance_threshold, limit)
    \/ \E query \in Queries, limit \in 1..MaxLimit,
          fresh \in {0, Len(redis_conn)} :
          search_long_term_memories(query, "test-session", limit, fresh)
    \/ search_messages("", "test-session", NoThreshold, 1)

SearchSpec == Init /\ [][SearchNext]_vars

\* The sessions of two users, and the session ids a search is asked with.
UserSessions == {"alice", "bob"}

SearchedSessions == {"alice", "bob", "alice|bob"}

IsolationNext ==
    \/ \E content \in {"Hello", "Hi there"}, session_id \in UserSessions :
          index_messages(<< [role |-> "user", content |-> content] >>, session_id,
                         TRUE, 1)
    \/ \E session_id \in SearchedSessions, limit \in 1..MaxLimit :
          search_messages("hello", session_id, NoThreshold, limit)

IsolationSpec == Init /\ [][IsolationNext]_vars

----------------------------------------------------------------------------
(* Properties of the store and the task runner *)

\* What a message says: its id, role and content, whatever its persisted_at.
Content(msgs) ==
    [i \in 1..Len(msgs) |->
        [id |-> msgs[i].id, role |-> msgs[i].role, content |-> msgs[i].content]]

IsIndex(t) == t.type = "index"
IsSummarize(t) == t.type = "summarize"
IsMessageRecord(r) == r.memory_type = "message"

\* The latest step is a put the store has served.
IsPut == last.op \in {"put", "putget"} /\ last.result = "200"

\* The summarize tasks of key k that are queued or running.
SummarizeCount(k) ==
    Cardinality({ i \in DOMAIN queue : IsSummarize(queue[i]) /\ queue[i].key = k })
    + Cardinality({ w \in Workers : IsSummarize(running[w]) /\ running[w].key = k })

C6_OneSummarizePerKey ==
    /\ \A k \in Keys : SummarizeCount(k) <= 1
    /\ (IsPut /\ last.dropped > 0) => SummarizeCount(last.key) = 1

\* A put has had its summarize task dropped while one of its key was running.
C6_Witness ==
    /\ IsPut
    /\ last.dropped = 1
    /\ \E w \in Workers : IsSummarize(running[w]) /\ running[w].key = last.key

(* C7: after a summarization completes, the session holds at most W         *)
(* messages, and its context is non-empty if it held messages before.       *)
C7_SummarizedFitsWindow ==
    (last.op = "summarize" /\ last.result \in {"unchanged", "summarized"}) =>
        /\ Len(sessions[last.key].wm.messages) <= WindowSize
        /\ last.before.wm.messages # <<>> => sessions[last.key].wm.context # None

(* C8, as stated: with long-term memory enabled every put schedules exactly *)
(* one index task.                                                          *)
C8_IndexEveryPut ==
    (IsPut /\ long_term_memory) => Len(SelectSeq(last.calls, IsIndex)) = 1

(* C8, amended: with long-term memory enabled, a put whose WorkingMemory    *)
(* holds an item with persisted_at unset schedules exactly one index task,  *)
(* whose message records are one per not-yet-persisted message, in order,   *)
(* each with the session's session_id and the text "<role>: <content>"; a   *)
(* put with no such item, or with long-term memory disabled, schedules none.*)
C8_IndexPendingItems ==
    IsPut =>
        LET wm == written[last.key].wm
            idx == SelectSeq(last.calls, IsIndex)
            unset == { i \in DOMAIN wm.messages : wm.messages[i].persisted_at = Unset }
            msgs == SelectIdx(wm.messages, unset, 1)
            mems == DedupById(wm.memories)
            pending == msgs # <<>> \/ \E i \in DOMAIN mems : mems[i].persisted_at = Unset
        IN  IF long_term_memory /\ pending
            THEN /\ Len(idx) = 1
                 /\ LET recs == SelectSeq(idx[1].records, IsMessageRecord)
                    IN  /\ Len(recs) = Len(msgs)
                        /\ \A i \in DOMAIN recs :
                              /\ recs[i].session_id = last.key[2]
                              /\ recs[i].text = msgs[i].role \o ": " \o msgs[i].content
            ELSE idx = <<>>

\* A put of the message user "Hello" has scheduled the record "user: Hello".
C8_Witness ==
    /\ IsPut
    /\ long_term_memory
    /\ \E t \in Range(last.calls) :
          /\ IsIndex(t)
          /\ \E r \in Range(t.records) :
                r.text = "user: Hello" /\ r.session_id = "test-session"

C16_NotFoundAfterDelete ==
    \A k \in Keys :
        absent[k] =>
            /\ get_session_memory(k).status = "404"
            /\ get_session_memory(k).wm = EmptyWorkingMemory

\* A session put with more than W messages was deleted, and its summarize task
\* has run since.
C16_Witness ==
    /\ last.op = "summarize"
    /\ last.key = MainKey
    /\ absent[MainKey]
    /\ version[MainKey] = 2

\* The ids of the sessions of a namespace whose WorkingMemory exists.
Existing(ns) == { sid \in SessionIds : sessions[<<ns, sid>>].exists }

(* C17: after any sequence of puts and deletes, listing the sessions of a   *)
(* namespace returns exactly the ids of the sessions of that namespace      *)
(* whose WorkingMemory exists, each once, and total is their number.        *)
C17_ListIsExisting ==
    \A ns \in Namespaces :
        LET listed == list_sessions(ns, Cardinality(SessionIds), 0)
        IN  /\ Range(listed.sessions) = Existing(ns)
            /\ Len(listed.sessions) = Cardinality(Existing(ns))
            /\ listed.total = Cardinality(Existing(ns))

\* A session was put and then deleted in one namespace while the session of
\* the same id is stored, and listed, in the other namespace.
C17_Witness ==
    /\ last.op = "delete"
    /\ version[last.key] = 2
    /\ \E ns \in Namespaces :
          /\ ns # last.key[1]
          /\ list_sessions(ns, 2, 0).sessions = <<last.key[2]>>
    /\ list_sessions(last.key[1], 2, 0).total = 0

----------------------------------------------------------------------------
(* Properties of the client helpers *)

\* Helper call c has read its session and written it back.
Wrote(c) == procs[c].pc = "done" /\ procs[c].fetched

(* C1: when two writers have read a session at the same version and the     *)
(* first has put and advanced the version, the put of the second, made from *)
(* the version it read, is answered 409 and leaves the first writer's       *)
(* WorkingMemory stored.                                                    *)
C1_StaleWriteRejected ==
    \A a, b \in Clients :
        ( /\ a # b
          /\ Wrote(a) /\ Wrote(b)
          /\ procs[a].found /\ procs[b].found
          /\ GetKey(procs[a]) = GetKey(procs[b])
          /\ PutKey(procs[a]) = GetKey(procs[a])
          /\ PutKey(procs[b]) = GetKey(procs[b])
          /\ procs[a].seen = procs[b].seen
          /\ ~procs[a].stale /\ procs[b].stale )
        => procs[b].result = "409"

(* C25: after every put, the stored memories list holds at most one record  *)
(* per id, and for an id supplied several times in the written list the     *)
(* record kept is the last one supplied.                                    *)
C25_MemoriesDedupedLastWins ==
    \A k \in Keys :
        written[k].valid =>
            LET stored == sessions[k].wm.memories
                given == written[k].wm.memories
            IN  /\ DistinctIds(stored)
                /\ \A j \in DOMAIN given :
                      \E i \in DOMAIN stored : stored[i].id = given[j].id
                /\ \A i \in DOMAIN stored :
                      \E j \in DOMAIN given :
                          /\ given[j].id = stored[i].id
                          /\ given[j].text = stored[i].text
                          /\ \A l \in DOMAIN given : l > j => given[l].id # given[j].id

\* A put whose memories list supplied the id "pref" twice has stored the
\* second of the two records alone.
C25_Witness ==
    /\ written[MainKey].valid
    /\ Len(written[MainKey].wm.memories) = 2
    /\ written[MainKey].wm.memories[1].id = written[MainKey].wm.memories[2].id
    /\ Len(sessions[MainKey].wm.memories) = 1
    /\ sessions[MainKey].wm.memories[1].text = written[MainKey].wm.memories[2].text

\* Client c has returned from the helper `op` called with `flag`, on a session
\* that held messages, memories and a context when the call began.
Returned(c, op, flag) ==
    /\ procs[c].pc = "done"
    /\ procs[c].op = op
    /\ procs[c].flag = flag
    /\ procs[c].before.exists
    /\ procs[c].before.wm.messages # <<>>
    /\ procs[c].before.wm.memories # <<>>
    /\ procs[c].before.wm.context # None

(* C23: set_working_memory_data(..., preserve_existing=True) on a session   *)
(* that holds messages, memories and a context writes them back unchanged,  *)
(* and replaces only data, even when its read of the session fails.         *)
C23_DataPreservesRest ==
    \A c \in Clients :
        Returned(c, "data", TRUE) =>
            LET wm == ClientWorkingMemory(procs[c])
            IN  /\ wm.messages = procs[c].before.wm.messages
                /\ wm.memories = procs[c].before.wm.memories
                /\ wm.context = procs[c].before.wm.context
                /\ wm.data = procs[c].data

(* C24: add_memories_to_working_memory writes the existing memories         *)
(* followed by the given ones with replace=False and exactly the given ones *)
(* with replace=True, and in both cases leaves the messages, data, context  *)
(* and user_id of the session as they were.                                 *)
C24_AddMemoriesFrame ==
    \A c \in Clients : \A replace \in BOOLEAN :
        Returned(c, "add", replace) =>
            LET wm == ClientWorkingMemory(procs[c])
                before == procs[c].before.wm
            IN  /\ wm.memories = IF replace THEN procs[c].memories
                                 ELSE before.memories \o procs[c].memories
                /\ wm.messages = before.messages
                /\ wm.data = before.data
                /\ wm.context = before.context
                /\ wm.user_id = before.user_id

(* C2: when two add_memories_to_working_memory calls with replace false,    *)
(* interleaved on one session and the only writers of it, have both         *)
(* returned successfully, the session holds the memories of both.           *)
C2_NoLostUpdate ==
    \A a, b \in Clients :
        LET k == PutKey(procs[a])
            stored == sessions[k].wm.memories
            first == IF procs[a].seen <= procs[b].seen THEN procs[a].seen
                     ELSE procs[b].seen
        IN  ( /\ a # b
              /\ Wrote(a) /\ Wrote(b)
              /\ procs[a].op = "add" /\ procs[b].op = "add"
              /\ ~procs[a].flag /\ ~procs[b].flag
              /\ procs[a].result = "200" /\ procs[b].result = "200"
              /\ PutKey(procs[b]) = k /\ GetKey(procs[a]) = k /\ GetKey(procs[b]) = k
              /\ version[k] = first + 2 )
            => \A m \in Range(procs[a].memories) \cup Range(procs[b].memories) :
                   \E i \in DOMAIN stored : stored[i].id = m.id

----------------------------------------------------------------------------
(* Properties of index_messages *)

(* C10: indexing records whose memory_hash equals that of a record already  *)
(* stored leaves the number of stored records unchanged.                    *)
C10_DedupKeepsCount ==
    (indexed.called /\ indexed.result = "ok" /\ indexed.matched)
        => Len(redis_conn) = indexed.before

(* C11: indexing is idempotent: when index_messages is called a second time *)
(* with the messages and the session of the call before it, and both calls  *)
(* succeed, the store after the second call is the store before it, that    *)
(* is, the store after a single call.                                       *)
C11_IndexIdempotent ==
    (indexed.called /\ indexed.result = "ok" /\ indexed.repeat)
        => redis_conn = SubSeq(redis_conn, 1, indexed.before)

(* C12: every record held in long-term storage has a non-empty text and a   *)
(* memory_hash.                                                             *)
C12_StoredTextAndHash ==
    \A j \in DOMAIN redis_conn :
        /\ redis_conn[j].content # ""
        /\ "memory_hash" \in DOMAIN redis_conn[j]

----------------------------------------------------------------------------
(* Properties of the extractor *)

\* The failures the answers of a retried call begin with.
Leading(responses, kinds) ==
    Cardinality({ i \in DOMAIN responses : \A j \in 1..i : responses[j] \in kinds })

\* The attempts AsyncRetrying makes of a call whose first `fails` attempts raise.
AttemptsFor(fails) == IF fails + 1 < MaxAttempts THEN fails + 1 ELSE MaxAttempts

(* C13: when the extraction of a stored source record has failed on every   *)
(* attempt with unparsable or malformed output, the record is marked        *)
(* discrete_memory_extracted = "t" once the attempts are exhausted.         *)
C13_MarkedAfterExhaustion ==
    (extraction.called /\ extraction.op = "discrete") =>
        \A a \in Range(extraction.attempts) :
            ( /\ a.attempts = MaxAttempts
              /\ \A i \in DOMAIN a.responses :
                     a.responses[i] \in {"not_json", "bad_shape"} )
            => \A i \in DOMAIN adapter :
                   adapter[i].id = a.id => adapter[i].discrete_memory_extracted = "t"

(* C14: every record produced by discrete extraction carries the namespace, *)
(* user_id and session_id of the source record it was extracted from, and   *)
(* its extracted_from contains the source record's id.                      *)
C14_InheritsSourceScope ==
    \A i \in DOMAIN extraction.produced :
        LET p == extraction.produced[i]
        IN  /\ p.record.namespace = p.source.namespace
            /\ p.record.user_id = p.source.user_id
            /\ p.record.session_id = p.source.session_id
            /\ p.source.id \in p.record.extracted_from

C19_PinnedNotAutoDeleted ==
    \A i \in DOMAIN extraction.deleted : ~extraction.deleted[i].pinned

----------------------------------------------------------------------------
(* Properties of the tagging *)

\* How many tokens right after the i-th carry the continuation marker.
Continuations(tokens, i) ==
    CHOOSE n \in 0..(Len(tokens) - i) :
        /\ \A j \in 1..n : startswith(tokens[i + j])
        /\ i + n = Len(tokens) \/ ~startswith(tokens[i + n + 1])

\* The i-th token with the continuations that follow it, their marker stripped.
Merged(tokens, i) ==
    join(<< tokens[i] >>
         \o [j \in 1..Continuations(tokens, i) |-> Tail(tokens[i + j])])

(* C26: for every sequence of NER tokens, extract_entities returns the set  *)
(* of the strings made of each token that does not start with "##" joined   *)
(* with the "##" tokens immediately following it, marker stripped.          *)
C26_EntitiesMergeContinuations ==
    tagging.op = "extract_entities" /\ ~tagging.raised =>
        tagging.entities =
            { Merged(tagging.results, i) :
                i \in { j \in DOMAIN tagging.results :
                          ~startswith(tagging.results[j]) } }

(* C27: handle_extraction applied to an item that already has topics and    *)
(* entities returns the duplicate-free unions of the existing and the       *)
(* extracted topics and entities.                                           *)
C27_KeepsExistingTags ==
    ( /\ tagging.op = "handle_extraction"
      /\ tagging.item.topics # {}
      /\ tagging.item.entities # {} )
    => /\ tagging.tags.topics = tagging.item.topics \cup tagging.extracted.topics
       /\ tagging.tags.entities
              = tagging.item.entities \cup tagging.extracted.entities

(* C28: with topic extraction and NER both disabled, handle_extraction      *)
(* returns no topics and no entities and calls neither extractor.           *)
C28_DisabledExtractsNothing ==
    ( /\ tagging.op = "handle_extraction"
      /\ ~tagging.enable_topic_extraction
      /\ ~tagging.enable_ner )
    => /\ tagging.tags.topics = {}
       /\ tagging.tags.entities = {}
       /\ tagging.calls = {}

\* handle_extraction has returned for an item with topics and entities of its
\* own while both settings were off.
C28_Witness ==
    /\ tagging.op = "handle_extraction"
    /\ ~tagging.enable_topic_extraction
    /\ ~tagging.enable_ner
    /\ tagging.item.topics = {"meeting"}
    /\ tagging.tags = [topics |-> {}, entities |-> {}]

(* C29: topic extraction returns at most K topic labels, K being num_topics *)
(* or else top_k_topics, with the BERTopic backend and with the LLM one.    *)
C29_AtMostKTopics ==
    tagging.op \in {"extract_topics_bertopic", "extract_topics_llm"} =>
        Len(tagging.topics) <= tagging.num_topics

----------------------------------------------------------------------------
(* Properties of the prompt hydrator *)

----------------------------------------------------------------------------
(* Properties of the models *)

(* C18: every MemoryRecord and every WorkingMemory the service creates has  *)
(* updated_at >= created_at and last_accessed >= created_at, the objects    *)
(* whose timestamps are all filled in by the model defaults included.       *)
C18_TimestampsOrdered ==
    made.model # "none" =>
        /\ made.updated_at >= made.created_at
        /\ made.last_accessed >= made.created_at

----------------------------------------------------------------------------
(* Properties of the search *)

(* C21: whenever a search is given a distance_threshold, whatever its value *)
(* from 0 to 2, every result it returns has dist <= distance_threshold.     *)
C21_WithinThreshold ==
    results.called /\ results.distance_threshold # NoThreshold =>
        \A i \in DOMAIN results.docs :
            results.docs[i].dist <= results.distance_threshold

(* C22: a search whose text is empty is rejected as InvalidInput and sends  *)
(* no query to the vector store.                                           *)
C22_EmptyTextRejected ==
    ~(results.called /\ results.query = "")

(* C20: every search returns at most limit results, in non-decreasing order *)
(* of dist when no re-ranking is applied and in non-increasing order of the *)
(* fused final score when recency re-ranking is applied.                    *)
C20_SearchSortedWithinLimit ==
    results.called =>
        /\ Len(results.docs) <= results.limit
        /\ \A i, j \in DOMAIN results.docs :
              i < j => IF results.rerank
                       THEN results.docs[i].final >= results.docs[j].final
                       ELSE results.docs[i].dist <= results.docs[j].dist

\* A search without re-ranking over three stored messages of a session, the
\* nearest of them stored last, has returned the two nearest, nearest first.
C20_Witness ==
    /\ results.called
    /\ ~results.rerank
    /\ results.limit = 2
    /\ Len(results.docs) = 2
    /\ results.docs[1].dist < results.docs[2].dist
    /\ Len(redis_conn) = 3
    /\ \A i \in DOMAIN redis_conn : redis_conn[i].session = results.session_id
    /\ \A i \in 1..2 :
          Dist("hello", redis_conn[3].content) < Dist("hello", redis_conn[i].content)
    /\ results.docs[1].content = redis_conn[3].content

\* The records of long-term storage that are sources of the last batch.
BatchSources ==
    { i \in DOMAIN adapter :
        \E j \in DOMAIN extraction.batch : extraction.batch[j].id = adapter[i].id }

(* C32: when the extraction of one memory of a batch has failed on every    *)
(* attempt, no source of the batch is marked extracted and no new memory of *)
(* the batch is stored, those processed before the failure included.        *)
C32_NoPartialExtraction ==
    (extraction.op = "discrete" /\ extraction.status = "RetryError") =>
        /\ \A i \in BatchSources : adapter[i].discrete_memory_extracted = "f"
        /\ extraction.added = {}
        /\ extraction.marked = {}

\* The first message of a batch of two was answered at once, the model had a
\* memory to extract from it, and every attempt for the second failed.
C32_Witness ==
    /\ extraction.op = "discrete"
    /\ extraction.status = "RetryError"
    /\ Len(extraction.attempts) = 2
    /\ extraction.attempts[1].id = 1
    /\ extraction.attempts[1].attempts = 1
    /\ extraction.attempts[2].attempts = MaxAttempts
    /\ LLMMemories(extraction.batch[1].text) # <<>>

Unextracted ==
    { i \in DOMAIN adapter :
        /\ adapter[i].memory_type = "message"
        /\ adapter[i].discrete_memory_extracted = "f" }

\* Records keep being created: the set of messages is not fixed.
MessagesKeepArriving == []<>(extraction.op = "none")

(* C35: extraction does not cascade: the records it creates are marked      *)
(* extracted and are never selected as sources, and repeated runs over a    *)
(* fixed set of messages eventually find nothing left to extract.           *)
C35_RepeatedRunsSettle ==
    \/ MessagesKeepArriving
    \/ <>[](Unextracted = {})

\* Repeated runs over a fixed set of messages find nothing left to extract,
\* unless attempts keep being exhausted.
RunsSettleUnlessRetryError ==
    \/ MessagesKeepArriving
    \/ <>[](Unextracted = {})
    \/ []<>(extraction.status = "RetryError")

\* The records extraction has created are marked extracted, so that no run
\* selects them.
CreatedAreMarked ==
    \A i \in DOMAIN adapter :
        adapter[i].id > 100 => i \notin Unextracted

\* The paging loop alone, and with the loop running on: a coroutine that is
\* awaiting a page is resumed when the page arrives.
ScanSpec == Init /\ [][ScanNext]_vars

ScanFairSpec == ScanSpec /\ WF_vars(NextPage)

\* The scan has collected every unprocessed message exactly once.
Collected ==
    /\ Len(scan.memories) = scan.stored
    /\ \A id \in 1..scan.stored :
          Cardinality({ i \in DOMAIN scan.memories : scan.memories[i] = id }) = 1

(* C34: called without memories, extraction pages through the unprocessed   *)
(* messages 25 at a time; while the store is not modified the loop ends     *)
(* having collected every one of them exactly once, also when their number  *)
(* is an exact multiple of 25.                                              *)
C34_ScanEndsWithAll ==
    (scan.pc = "scanning") ~> (scan.pc = "done" /\ Collected)

\* A scan over fifty messages has ended after two full pages and an empty one.
C34_Witness ==
    /\ scan.pc = "done"
    /\ scan.stored = 2 * PageSize
    /\ scan.pages = 3
    /\ Collected

RegistrySpec == Init /\ [][RegistryNext]_vars

(* C31: a request that names a model the registry does not know is rejected *)
(* as invalid input, and is never served with the configuration of another  *)
(* model.                                                                   *)
C31_UnknownModelRejected ==
    (served.called /\ served.model_name # None
        /\ served.model_name \notin DOMAIN MODEL_CONFIGS) =>
        /\ served.result \in {"ValidationError", "ValueError"}
        /\ served.config = NoConfig

LoadSpec == Init /\ [][LoadNext]_vars

(* C36: when get_topic_model or get_ner_model is called concurrently before *)
(* the model is initialized, the model is loaded exactly once in the        *)
(* process, every caller receives the same instance, and the instance is    *)
(* not replaced afterwards.                                                 *)
C36_LoadedOnceSameInstance ==
    /\ loaded.loads.topic <= 1
    /\ loaded.loads.ner <= 1
    /\ \A c1, c2 \in Callers :
          (/\ loaded.callers[c1].got # 0
           /\ loaded.callers[c2].got # 0
           /\ loaded.callers[c1].fn = loaded.callers[c2].fn)
          => loaded.callers[c1].got = loaded.callers[c2].got

\* Two callers of get_ner_model have received different pipelines although
\* the model was loaded once.
NerPipelinesDiffer ==
    \E c1, c2 \in Callers :
        /\ loaded.loads.ner = 1
        /\ loaded.callers[c1].fn = "ner" /\ loaded.callers[c2].fn = "ner"
        /\ loaded.callers[c1].got # 0 /\ loaded.callers[c2].got # 0
        /\ loaded.callers[c1].got # loaded.callers[c2].got
        /\ loaded.callers[c1].model = loaded.callers[c2].model

NamespaceSpec == Init /\ [][NamespaceNext]_vars

(* C37: in set_working_memory_data and add_memories_to_working_memory the   *)
(* namespace used to read the existing session is the namespace the result  *)
(* is written under, whatever the namespace argument (none, empty or a      *)
(* name) and whether or not the client has a default namespace.             *)
C37_ReadsWhereItWrites ==
    \A c \in Clients :
        (resolved[c].pc = "done" /\ resolved[c].fetched) =>
            resolved[c].read = resolved[c].write

(* C38: search_messages isolates sessions: what is indexed under other      *)
(* sessions does not change the results for a session, and every result     *)
(* was indexed by index_messages with the session_id of the search.         *)
C38_SessionIsolation ==
    (results.called /\ ~results.rerank) =>
        \A i \in DOMAIN results.docs :
            \E j \in DOMAIN redis_conn :
                /\ redis_conn[j].session = results.session_id
                /\ redis_conn[j].content = results.docs[i].content
                /\ redis_conn[j].role = results.docs[i].role

\* The results of a search for a session id that is stored as it is are among
\* the documents of that session.
PlainSessionIsolated ==
    (results.called /\ ~results.rerank
        /\ TagValues(results.session_id) = {results.session_id}) =>
        \A i \in DOMAIN results.docs :
            \E j \in DOMAIN redis_conn :
                /\ redis_conn[j].session = results.session_id
                /\ redis_conn[j].content = results.docs[i].content
                /\ redis_conn[j].role = results.docs[i].role

(* C39: a successful index_messages adds exactly one record for each        *)
(* message, with the content and the role of the message and the session_id *)
(* given; when the embeddings cannot be created the error is raised and no  *)
(* record is written.                                                       *)
C39_IndexesEachMessageOrNothing ==
    indexed.called =>
        /\ indexed.result = "ok" =>
              /\ Len(redis_conn) = indexed.before + Len(indexed.messages)
              /\ \A i \in DOMAIN indexed.messages :
                    /\ redis_conn[indexed.before + i].content
                          = indexed.messages[i].content
                    /\ redis_conn[indexed.before + i].role = indexed.messages[i].role
                    /\ redis_conn[indexed.before + i].session = indexed.session_id
        /\ ~indexed.embedded =>
              /\ indexed.result = "raised"
              /\ Len(redis_conn) = indexed.before

\* Two messages were indexed into a store that held one record, and the store
\* holds three.
C39_Witness ==
    /\ indexed.called
    /\ indexed.result = "ok"
    /\ Len(indexed.messages) = 2
    /\ indexed.before = 1
    /\ Len(redis_conn) = 3

====
